---- MODULE Spec2Model ----
(***************************************************************************)
(* A model of the Brazilian soccer knowledge graph: the team-name          *)
(* normaliser (models.py), the CSV ingestion pipeline and the graph store  *)
(* it writes to (database.py), and the analytical queries over the stored  *)
(* matches (queries.py).                                                   *)
(*                                                                         *)
(* Three specifications share the variables:                               *)
(*   SpecNorm   applies normalize_team_name once and twice to a raw name;  *)
(*   SpecLoad   runs DataLoader.load_all step by step over a set of files; *)
(*   SpecQuery  upserts Match nodes and runs QueryExecutor operations.     *)
(*                                                                         *)
(* Strings are TLA+ strings; Len, SubSeq, Tail and \o act on them.         *)
(***************************************************************************)
EXTENDS Integers, Sequences, FiniteSets, TLC

VARIABLES
    \* SpecNorm: the raw name, its normal form, the normal form of that, and
    \* how far the run is ("raw", "once", "twice")
    raw, normOnce, normTwice, npc,
    \* the graph store: [teams, players, comps, seasons: sets of nodes,
    \* matches: the Match nodes in the store's scan order, edges: a set of
    \* <<type, match id, key of the target node>>]
    store,
    \* the data directory: source name -> "absent" or the rows of the file
    files,
    \* DataLoader._teams_cache, in insertion order: <<[key, team], ...>>
    teams_cache,
    \* where load_all is, the stats it builds, and the node and edge counts
    \* of the store at the end of each completed load_all
    pc, stats, runCounts,
    \* SpecQuery: the last QueryExecutor call and its result
    qres,
    \* SpecConn: whether the graph store can be reached, the schema it has,
    \* and the last call made on the connection with how it ended
    conn

\* no query has been run; op names the operation qres is the result of
NoResult == [op |-> "none"]

normVars == <<raw, normOnce, normTwice, npc>>

loadVars == <<files, teams_cache, pc, stats, runCounts>>

vars == <<raw, normOnce, normTwice, npc, store, files, teams_cache, pc, stats,
          runCounts, qres, conn>>

(***************************************************************************)
(* Bounds of the model.                                                    *)
(***************************************************************************)
\* longest raw name generated from Alphabet
MaxLen == 4
\* rows in the data directory, all files together
MaxRows == 2
\* load_all runs against the same data directory
MaxRuns == 2
\* Match nodes in the store the queries run on
MaxMatches == 3

(***************************************************************************)
(* models.py: normalize_team_name                                          *)
(***************************************************************************)
CharAt(s, i) == SubSeq(s, i, i)

\* the characters str.strip() and str.split() treat as whitespace
Whitespace == {" ", "\t", "\n"}

\* the character class [A-Z] of the state-suffix pattern
Upper ==
    {"A", "B", "C", "D", "E", "F", "G", "H", "I", "J", "K", "L", "M",
     "N", "O", "P", "Q", "R", "S", "T", "U", "V", "W", "X", "Y", "Z"}

RECURSIVE LStrip(_)
LStrip(s) ==
    IF Len(s) > 0 /\ CharAt(s, 1) \in Whitespace THEN LStrip(Tail(s)) ELSE s

RECURSIVE RStrip(_)
RStrip(s) ==
    IF Len(s) > 0 /\ CharAt(s, Len(s)) \in Whitespace
    THEN RStrip(SubSeq(s, 1, Len(s) - 1))
    ELSE s

\* name.strip()
Strip(s) == RStrip(LStrip(s))

\* re.sub(r'-[A-Z]{2}$', '', s): the pattern is anchored at the end, so at
\* most one match, the last three characters, is removed.  (s is stripped, so
\* it ends in no newline and $ is the end of the string.)
StripStateSuffix(s) ==
    LET n == Len(s) IN
    IF /\ n >= 3
       /\ CharAt(s, n - 2) = "-"
       /\ CharAt(s, n - 1) \in Upper
       /\ CharAt(s, n) \in Upper
    THEN SubSeq(s, 1, n - 3)
    ELSE s

\* unidecode of one character: the accented letters of Portuguese team names
\* go to their base letter, ASCII is left alone.
UnidecodeChar(c) ==
    CASE c \in {"á", "à", "â", "ã"} -> "a"
      [] c \in {"é", "ê"} -> "e"
      [] c = "í" -> "i"
      [] c \in {"ó", "ô", "õ"} -> "o"
      [] c = "ú" -> "u"
      [] c = "ç" -> "c"
      [] OTHER -> c

RECURSIVE Unidecode(_)
Unidecode(s) ==
    IF Len(s) = 0 THEN s ELSE UnidecodeChar(CharAt(s, 1)) \o Unidecode(Tail(s))

\* name.split(): the maximal runs of non-whitespace characters, in order.
\* word is the run being read, s what is left to read.
RECURSIVE SplitFrom(_, _)
SplitFrom(word, s) ==
    IF Len(s) = 0
    THEN IF word = "" THEN <<>> ELSE <<word>>
    ELSE IF CharAt(s, 1) \in Whitespace
         THEN (IF word = "" THEN <<>> ELSE <<word>>) \o SplitFrom("", Tail(s))
         ELSE SplitFrom(word \o CharAt(s, 1), Tail(s))

Split(s) == SplitFrom("", s)

\* ' '.join(words)
RECURSIVE Join(_)
Join(words) ==
    IF Len(words) = 0 THEN ""
    ELSE IF Len(words) = 1 THEN words[1]
    ELSE words[1] \o " " \o Join(Tail(words))

\* the alias table of normalize_team_name, as <<key, value>> pairs
team_mappings ==
    { <<"Atletico Mineiro", "Atletico-MG">>,
      <<"Atletico-MG", "Atletico-MG">>,
      <<"Atletico MG", "Atletico-MG">>,
      <<"Atletico Paranaense", "Athletico-PR">>,
      <<"Athletico Paranaense", "Athletico-PR">>,
      <<"Athletico-PR", "Athletico-PR">>,
      <<"Atletico Goianiense", "Atletico-GO">>,
      <<"Sport Club Corinthians Paulista", "Corinthians">>,
      <<"Sociedade Esportiva Palmeiras", "Palmeiras">>,
      <<"Sao Paulo FC", "Sao Paulo">>,
      <<"Sao Paulo Futebol Clube", "Sao Paulo">> }

\* team_mappings.get(name, name)
TeamMappingsGet(name) ==
    IF \E p \in team_mappings : p[1] = name
    THEN (CHOOSE p \in team_mappings : p[1] = name)[2]
    ELSE name

normalize_team_name(name) ==
    IF name = "" THEN ""
    ELSE TeamMappingsGet(Join(Split(Unidecode(StripStateSuffix(Strip(name))))))

(***************************************************************************)
(* Python and pandas values.                                               *)
(*                                                                         *)
(* An optional value is <<>> (None, a null property) or <<v>>.  A cell is  *)
(* what row.get(column) finds in a row of a DataFrame: a string, an        *)
(* integer, NaN (an empty cell), or nothing at all when the file has no    *)
(* such column ("absent": row.get then returns its default).               *)
(***************************************************************************)
None == <<>>
Some(v) == <<v>>

StrCell(s) == [kind |-> "str", s |-> s, n |-> 0]
IntCell(n) == [kind |-> "int", s |-> "", n |-> n]
NaN == [kind |-> "nan", s |-> "", n |-> 0]
NoneCell == [kind |-> "none", s |-> "", n |-> 0]
NoColumn == [kind |-> "absent", s |-> "", n |-> 0]

\* row.get(col, default)
RowGet(row, col, default) ==
    IF row[col].kind = "absent" THEN default ELSE row[col]

\* pd.isna(value); pd.notna is its negation
IsNa(c) == c.kind \in {"nan", "none"}

Digits == "0123456789"

\* str(n) of a non-negative integer
RECURSIVE IntToStr(_)
IntToStr(n) ==
    IF n < 10 THEN CharAt(Digits, n + 1)
    ELSE IntToStr(n \div 10) \o CharAt(Digits, (n % 10) + 1)

\* str(value)
PyStr(c) ==
    CASE c.kind = "str" -> c.s
      [] c.kind = "int" -> IntToStr(c.n)
      [] c.kind = "nan" -> "nan"
      [] OTHER -> "None"

IsDigit(ch) == \E i \in 1..10 : CharAt(Digits, i) = ch

DigitValue(ch) == (CHOOSE i \in 1..10 : CharAt(Digits, i) = ch) - 1

RECURSIVE AllDigits(_)
AllDigits(s) == Len(s) = 0 \/ (IsDigit(CharAt(s, 1)) /\ AllDigits(Tail(s)))

\* int(s) of a string of decimal digits
RECURSIVE DigitsToInt(_)
DigitsToInt(s) ==
    IF Len(s) = 0 THEN 0
    ELSE 10 * DigitsToInt(SubSeq(s, 1, Len(s) - 1)) + DigitValue(CharAt(s, Len(s)))

(***************************************************************************)
(* database.py: DataLoader helpers                                         *)
(***************************************************************************)
\* DataLoader._safe_int(value, default): NaN and None give the default, a
\* number itself, a string its value when it is decimal digits (surrounding
\* whitespace allowed) and the default when int() raises ValueError.
safe_int(value, default) ==
    IF IsNa(value) THEN default
    ELSE IF value.kind = "int" THEN value.n
    ELSE IF Strip(value.s) # "" /\ AllDigits(Strip(value.s))
         THEN DigitsToInt(Strip(value.s))
         ELSE default

\* what dateutil's parser.parse(text, dayfirst=True) makes of the date texts
\* of the sources: a day as the integer YYYYMMDD, or None when it raises
DateTexts ==
    { <<"2020-05-20", 20200520>>, <<"20/05/2020", 20200520>>,
      <<"2020-05-20 18:30:00", 20200520>>, <<"2019-11-23", 20191123>> }

\* DataLoader._parse_date
parse_date(date_str) ==
    IF IsNa(date_str) \/ PyStr(date_str) = "" THEN None
    ELSE IF \E p \in DateTexts : p[1] = PyStr(date_str)
         THEN Some((CHOOSE p \in DateTexts : p[1] = PyStr(date_str))[2])
         ELSE None

\* s[:n]
Prefix(s, n) == IF Len(s) <= n THEN s ELSE SubSeq(s, 1, n)

IdHomeLen == 10
IdAwayLen == 10
IdCompLen == 5

\* DataLoader._generate_match_id; strftime("%Y%m%d") of a day YYYYMMDD is
\* its decimal digits
generate_match_id(datetime_obj, home, away, competition) ==
    (IF datetime_obj = None THEN "unknown" ELSE IntToStr(datetime_obj[1]))
        \o "_" \o Prefix(normalize_team_name(home), IdHomeLen)
        \o "_" \o Prefix(normalize_team_name(away), IdAwayLen)
        \o "_" \o Prefix(competition, IdCompLen)

(***************************************************************************)
(* models.py: the entities and their to_dict                               *)
(***************************************************************************)
BRASILEIRAO ==
    [name |-> "Brasileirao Serie A", short_name |-> "Brasileirao",
     country |-> "Brazil", competition_type |-> "league"]

COPA_DO_BRASIL ==
    [name |-> "Copa do Brasil", short_name |-> "Copa do Brasil",
     country |-> "Brazil", competition_type |-> "cup"]

LIBERTADORES ==
    [name |-> "Copa Libertadores", short_name |-> "Libertadores",
     country |-> "International", competition_type |-> "cup"]

\* Team(name, state, original_names) with __post_init__: the name is
\* normalised once more
Team(name, state, original_names) ==
    [name |-> normalize_team_name(name), state |-> state,
     original_names |-> original_names]

\* Match.result
MatchResult(home_goals, away_goals) ==
    IF home_goals > away_goals THEN "home_win"
    ELSE IF away_goals > home_goals THEN "away_win"
    ELSE "draw"

\* Match(...) with __post_init__, then Match.to_dict(): the properties of the
\* Match node.  datetime is None or a day (isoformat() of days of four-digit
\* years orders as the days do).
MatchDict(id, datetime, home_team, away_team, home_goals, away_goals, competition, season, round, stadium) ==
    [id |-> id, datetime |-> datetime,
     home_team |-> normalize_team_name(home_team),
     away_team |-> normalize_team_name(away_team),
     home_goals |-> home_goals, away_goals |-> away_goals,
     competition |-> competition, season |-> season, round |-> round,
     stadium |-> stadium,
     result |-> MatchResult(home_goals, away_goals),
     total_goals |-> home_goals + away_goals]

\* Player(...).to_dict(): the fields _load_fifa_players fills
PlayerDict(id, name, age, nationality, overall, potential, club, position) ==
    [id |-> id, name |-> name, age |-> age, nationality |-> nationality,
     overall |-> overall, potential |-> potential,
     club |-> IF club # None /\ club[1] # ""
              THEN Some(normalize_team_name(club[1])) ELSE None,
     position |-> position]

(***************************************************************************)
(* The graph store, as the Cypher of database.py uses it.                  *)
(***************************************************************************)
EmptyStore ==
    [teams |-> {}, players |-> {}, comps |-> {}, seasons |-> {},
     matches |-> <<>>, edges |-> {}]

\* MERGE (n {key}) SET ...: every property the statement sets is replaced
MergeByName(nodes, node) == {n \in nodes : n.name # node.name} \cup {node}

\* a plausible slip: a known id keeps the node it has
MergeByIdKeepFirst(nodes, node) ==
    IF \E n \in nodes : n.id = node.id THEN nodes ELSE nodes \cup {node}

MergeById(nodes, node) == {n \in nodes : n.id # node.id} \cup {node}

\* a plausible slip: CREATE instead of MERGE
AppendMatch(matches, d) == Append(matches, d)

\* a plausible slip: the SET list leaves out m.result and m.total_goals, so
\* a known id keeps the ones it had
MergeMatchKeepDerived(matches, d) ==
    IF \E i \in 1..Len(matches) : matches[i].id = d.id
    THEN [i \in 1..Len(matches) |->
             IF matches[i].id = d.id
             THEN [d EXCEPT !.result = matches[i].result,
                            !.total_goals = matches[i].total_goals]
             ELSE matches[i]]
    ELSE Append(matches, d)

\* MERGE (m:Match {id}) SET ...: a known id keeps its node, a new one is
\* added to the scan
MergeMatch(matches, d) ==
    IF \E i \in 1..Len(matches) : matches[i].id = d.id
    THEN [i \in 1..Len(matches) |->
             IF matches[i].id = d.id THEN d ELSE matches[i]]
    ELSE Append(matches, d)

\* `if match.season:` None and 0 are false
SeasonGiven(d) == d.season # None /\ d.season[1] # 0

\* DataLoader._create_match_node: one write query.  Each MATCH that finds no
\* node leaves no row for the clauses after it.
create_match_node(st, d) ==
    LET homeRow == \E t \in st.teams : t.name = d.home_team
        awayRow == homeRow /\ \E t \in st.teams : t.name = d.away_team
        compRow == awayRow /\ \E c \in st.comps : c.name = d.competition
        seasonRow == compRow /\ SeasonGiven(d)
    IN  [st EXCEPT
            !.matches = MergeMatch(@, d),
            !.seasons = IF seasonRow THEN @ \cup {d.season[1]} ELSE @,
            !.edges = @ \cup
                (IF homeRow THEN {<<"HOME_TEAM", d.id, d.home_team>>} ELSE {}) \cup
                (IF awayRow THEN {<<"AWAY_TEAM", d.id, d.away_team>>} ELSE {}) \cup
                (IF compRow THEN {<<"PART_OF", d.id, d.competition>>} ELSE {}) \cup
                (IF seasonRow THEN {<<"IN_SEASON", d.id, IntToStr(d.season[1])>>}
                 ELSE {})]

(***************************************************************************)
(* database.py: DataLoader.  A row carries one cell per role; each loader  *)
(* reads the roles under its own column names (home_team / Equipe_mandante *)
(* / home, datetime / Data / date, season / Ano, round / stage / Rodada,   *)
(* home_team_state / Mandante_UF, Arena, tournament).                      *)
(***************************************************************************)
\* the match sources in the order load_all reads them, then the player file
SourceNames ==
    <<"Brasileirao_Matches.csv", "Brazilian_Cup_Matches.csv",
      "Libertadores_Matches.csv", "novo_campeonato_brasileiro.csv",
      "BR-Football-Dataset.csv", "fifa_data.csv">>

BrasileiraoFile == 1
CopaBrasilFile == 2
LibertadoresFile == 3
HistoricalFile == 4
ExtendedFile == 5
FifaFile == 6

\* the competition tag each loader passes to _generate_match_id
SourceTag(src) ==
    CASE src = BrasileiraoFile -> "Brasileirao"
      [] src = CopaBrasilFile -> "CopaBrasil"
      [] src = LibertadoresFile -> "Libertadores"
      [] src = HistoricalFile -> "BrasHist"
      [] OTHER -> "Extended"

\* str.lower() on ASCII
LowerChar(c) ==
    IF c \in Upper
    THEN CharAt("abcdefghijklmnopqrstuvwxyz",
                CHOOSE i \in 1..26 : CharAt("ABCDEFGHIJKLMNOPQRSTUVWXYZ", i) = c)
    ELSE c

RECURSIVE Lower(_)
Lower(s) == IF Len(s) = 0 THEN s ELSE LowerChar(CharAt(s, 1)) \o Lower(Tail(s))

\* `sub in s`, and Cypher's s CONTAINS sub
Contains(s, sub) ==
    \E i \in 1..(Len(s) - Len(sub) + 1) : SubSeq(s, i, i + Len(sub) - 1) = sub

\* the competition of a row: fixed per source, but read off the tournament
\* text in _load_extended_statistics
SourceCompetition(src, row) ==
    CASE src \in {BrasileiraoFile, HistoricalFile} -> BRASILEIRAO.name
      [] src = CopaBrasilFile -> COPA_DO_BRASIL.name
      [] src = LibertadoresFile -> LIBERTADORES.name
      [] OTHER ->
          LET tournament == Lower(PyStr(RowGet(row, "tournament", StrCell("Unknown"))))
          IN  IF Contains(tournament, "copa") /\ Contains(tournament, "brasil")
              THEN COPA_DO_BRASIL.name
              ELSE IF Contains(tournament, "libertadores")
                   THEN LIBERTADORES.name
                   ELSE BRASILEIRAO.name

\* the state passed to _get_or_create_team: the state cell in the Brasileirao
\* and historical loaders, the default None in the others
SourceState(src, row, col) ==
    IF src \in {BrasileiraoFile, HistoricalFile}
    THEN RowGet(row, col, NoneCell)
    ELSE NoneCell

\* `str(cell) if pd.notna(cell) else None`
StrIfNotNa(cell) == IF IsNa(cell) THEN None ELSE Some(PyStr(cell))

\* `self._safe_int(cell) if pd.notna(cell) else None`
IntIfNotNa(cell) == IF IsNa(cell) THEN None ELSE Some(safe_int(cell, 0))

CacheHas(cache, key) == \E i \in 1..Len(cache) : cache[i].key = key

\* DataLoader._get_or_create_team: the cache after the call
get_or_create_team(cache, name, state) ==
    LET normalized == normalize_team_name(name) IN
    IF ~CacheHas(cache, normalized)
    THEN Append(cache, [key |-> normalized,
                        team |-> Team(normalized, state, {name})])
    ELSE [i \in 1..Len(cache) |->
             IF cache[i].key = normalized
             THEN [cache[i] EXCEPT !.team.original_names = @ \cup {name}]
             ELSE cache[i]]

\* the Match a loader builds from a row, as its to_dict()
RowMatch(src, row) ==
    LET dt == parse_date(RowGet(row, "date", NoneCell))
        home == PyStr(RowGet(row, "home", StrCell("")))
        away == PyStr(RowGet(row, "away", StrCell("")))
    IN  MatchDict(
            generate_match_id(dt, home, away, SourceTag(src)),
            dt, home, away,
            safe_int(RowGet(row, "home_goal", NoneCell), 0),
            safe_int(RowGet(row, "away_goal", NoneCell), 0),
            SourceCompetition(src, row),
            IF src = ExtendedFile THEN None
            ELSE IntIfNotNa(RowGet(row, "season", NoneCell)),
            IF src = ExtendedFile THEN None
            ELSE StrIfNotNa(RowGet(row, "round", NoneCell)),
            IF src = HistoricalFile
            THEN StrIfNotNa(RowGet(row, "stadium", NoneCell)) ELSE None)

\* the body of the `for _, row in df.iterrows()` loop of a match loader;
\* acc is [cache, st, count]
LoadRow(src, row, acc) ==
    LET home == PyStr(RowGet(row, "home", StrCell("")))
        away == PyStr(RowGet(row, "away", StrCell("")))
    IN  IF home = "" \/ away = "" THEN acc
        ELSE LET c1 == get_or_create_team(acc.cache, home,
                                          SourceState(src, row, "home_state"))
                 c2 == get_or_create_team(c1, away,
                                          SourceState(src, row, "away_state"))
             IN  [cache |-> c2,
                  st |-> create_match_node(acc.st, RowMatch(src, row)),
                  count |-> acc.count + 1]

RECURSIVE LoadRows(_, _, _, _)
LoadRows(src, rows, i, acc) ==
    IF i > Len(rows) THEN acc
    ELSE LoadRows(src, rows, i + 1, LoadRow(src, rows[i], acc))

\* a plausible slip: a missing file is reported as -1 and load_all adds it
LoadMatchFileNotFoundMarker(src, file, cache, st) ==
    IF ~file.present THEN [cache |-> cache, st |-> st, count |-> 0 - 1]
    ELSE LoadRows(src, file.rows, 1, [cache |-> cache, st |-> st, count |-> 0])

\* one of the five match loaders: a missing file contributes nothing
LoadMatchFile(src, file, cache, st) ==
    IF ~file.present THEN [cache |-> cache, st |-> st, count |-> 0]
    ELSE LoadRows(src, file.rows, 1, [cache |-> cache, st |-> st, count |-> 0])

\* DataLoader._create_competitions
create_competitions(st) ==
    [st EXCEPT !.comps =
        MergeByName(MergeByName(MergeByName(@, BRASILEIRAO), COPA_DO_BRASIL),
                    LIBERTADORES)]

\* DataLoader._create_teams: one MERGE ... SET per cached team, in the
\* order of the cache
RECURSIVE CreateTeamsFrom(_, _, _)
CreateTeamsFrom(cache, i, teams) ==
    IF i > Len(cache) THEN teams
    ELSE CreateTeamsFrom(cache, i + 1, MergeByName(teams, cache[i].team))

create_teams(st, cache) == [st EXCEPT !.teams = CreateTeamsFrom(cache, 1, @)]

batch_size == 500

\* DataLoader._create_player_batch: UNWIND the batch, MERGE each by id
RECURSIVE CreatePlayersFrom(_, _, _)
CreatePlayersFrom(batch, i, players) ==
    IF i > Len(batch) THEN players
    ELSE CreatePlayersFrom(batch, i + 1, MergeById(players, batch[i]))

create_player_batch(st, batch) ==
    [st EXCEPT !.players = CreatePlayersFrom(batch, 1, @)]

\* the Player a row gives, as its to_dict()
RowPlayer(row) ==
    PlayerDict(safe_int(RowGet(row, "ID", NoneCell), 0),
               PyStr(RowGet(row, "Name", StrCell(""))),
               IntIfNotNa(RowGet(row, "Age", NoneCell)),
               StrIfNotNa(RowGet(row, "Nationality", NoneCell)),
               IntIfNotNa(RowGet(row, "Overall", NoneCell)),
               IntIfNotNa(RowGet(row, "Potential", NoneCell)),
               StrIfNotNa(RowGet(row, "Club", NoneCell)),
               StrIfNotNa(RowGet(row, "Position", NoneCell)))

\* the loop of _load_fifa_players; acc is [st, batch, count]
RECURSIVE LoadPlayerRows(_, _, _)
LoadPlayerRows(rows, i, acc) ==
    IF i > Len(rows)
    THEN IF Len(acc.batch) > 0
         THEN [st |-> create_player_batch(acc.st, acc.batch), batch |-> <<>>,
               count |-> acc.count + Len(acc.batch)]
         ELSE acc
    ELSE IF IsNa(RowGet(rows[i], "ID", NoneCell))
         THEN LoadPlayerRows(rows, i + 1, acc)
         ELSE LET batch == Append(acc.batch, RowPlayer(rows[i])) IN
              IF Len(batch) >= batch_size
              THEN LoadPlayerRows(rows, i + 1,
                       [st |-> create_player_batch(acc.st, batch),
                        batch |-> <<>>, count |-> acc.count + Len(batch)])
              ELSE LoadPlayerRows(rows, i + 1, [acc EXCEPT !.batch = batch])

LoadPlayerFile(file, st) ==
    IF ~file.present THEN [st |-> st, batch |-> <<>>, count |-> 0]
    ELSE LoadPlayerRows(file.rows, 1, [st |-> st, batch |-> <<>>, count |-> 0])

\* nodes per label and edges per type
EdgesOfType(st, type) == {e \in st.edges : e[1] = type}

Counts(st) ==
    [Team |-> Cardinality(st.teams), Player |-> Cardinality(st.players),
     Match |-> Len(st.matches), Competition |-> Cardinality(st.comps),
     Season |-> Cardinality(st.seasons),
     HOME_TEAM |-> Cardinality(EdgesOfType(st, "HOME_TEAM")),
     AWAY_TEAM |-> Cardinality(EdgesOfType(st, "AWAY_TEAM")),
     PART_OF |-> Cardinality(EdgesOfType(st, "PART_OF")),
     IN_SEASON |-> Cardinality(EdgesOfType(st, "IN_SEASON"))]

(***************************************************************************)
(* queries.py: QueryExecutor.  A query reads the Match nodes in the        *)
(* store's scan order (st.matches); the store answers one query on one     *)
(* content always in the same way.                                         *)
(***************************************************************************)
\* ORDER BY m.datetime DESC: a null datetime sorts first, then later days
\* before earlier ones
DatetimeBefore(a, b) ==
    \/ a.datetime = None /\ b.datetime # None
    \/ a.datetime # None /\ b.datetime # None /\ a.datetime[1] > b.datetime[1]

RECURSIVE InsertByDatetime(_, _)
InsertByDatetime(sorted, x) ==
    IF Len(sorted) = 0 THEN <<x>>
    ELSE IF DatetimeBefore(x, Head(sorted)) THEN <<x>> \o sorted
    ELSE <<Head(sorted)>> \o InsertByDatetime(Tail(sorted), x)

\* rows of equal datetime stay in scan order
RECURSIVE OrderByDatetimeDesc(_)
OrderByDatetimeDesc(rows) ==
    IF Len(rows) = 0 THEN <<>>
    ELSE InsertByDatetime(OrderByDatetimeDesc(SubSeq(rows, 1, Len(rows) - 1)),
                          rows[Len(rows)])

\* LIMIT $limit
Limit(rows, limit) == IF Len(rows) <= limit THEN rows ELSE SubSeq(rows, 1, limit)

\* the Cypher of find_matches_between_teams
BetweenTeamsQuery(st, team1, team2, limit) ==
    LET Matching(m) ==
            \/ m.home_team = team1 /\ m.away_team = team2
            \/ m.home_team = team2 /\ m.away_team = team1
    IN  Limit(OrderByDatetimeDesc(SelectSeq(st.matches, Matching)), limit)

NoH2H ==
    [team1_wins |-> 0, team2_wins |-> 0, draws |-> 0,
     team1_goals |-> 0, team2_goals |-> 0]

\* a plausible slip: a draw away from home is not counted
H2HStepNoAwayDraw(acc, m, team1_norm) ==
    LET hg == m.home_goals
        ag == m.away_goals
    IN  IF m.home_team = team1_norm
        THEN [team1_goals |-> acc.team1_goals + hg,
              team2_goals |-> acc.team2_goals + ag,
              team1_wins |-> acc.team1_wins + (IF hg > ag THEN 1 ELSE 0),
              team2_wins |-> acc.team2_wins + (IF ag > hg THEN 1 ELSE 0),
              draws |-> acc.draws + (IF hg = ag THEN 1 ELSE 0)]
        ELSE [team2_goals |-> acc.team2_goals + hg,
              team1_goals |-> acc.team1_goals + ag,
              team2_wins |-> acc.team2_wins + (IF hg > ag THEN 1 ELSE 0),
              team1_wins |-> acc.team1_wins + (IF ag > hg THEN 1 ELSE 0),
              draws |-> acc.draws]

\* a plausible slip: the goals of a match away from home go to the wrong side
H2HStepGoalsSwapped(acc, m, team1_norm) ==
    LET hg == m.home_goals
        ag == m.away_goals
    IN  IF m.home_team = team1_norm
        THEN [team1_goals |-> acc.team1_goals + hg,
              team2_goals |-> acc.team2_goals + ag,
              team1_wins |-> acc.team1_wins + (IF hg > ag THEN 1 ELSE 0),
              team2_wins |-> acc.team2_wins + (IF ag > hg THEN 1 ELSE 0),
              draws |-> acc.draws + (IF hg = ag THEN 1 ELSE 0)]
        ELSE [team2_goals |-> acc.team2_goals + ag,
              team1_goals |-> acc.team1_goals + hg,
              team2_wins |-> acc.team2_wins + (IF hg > ag THEN 1 ELSE 0),
              team1_wins |-> acc.team1_wins + (IF ag > hg THEN 1 ELSE 0),
              draws |-> acc.draws + (IF hg = ag THEN 1 ELSE 0)]

\* the body of `for m in matches` in find_matches_between_teams
H2HStep(acc, m, team1_norm) ==
    LET hg == m.home_goals
        ag == m.away_goals
    IN  IF m.home_team = team1_norm
        THEN [team1_goals |-> acc.team1_goals + hg,
              team2_goals |-> acc.team2_goals + ag,
              team1_wins |-> acc.team1_wins + (IF hg > ag THEN 1 ELSE 0),
              team2_wins |-> acc.team2_wins + (IF ag > hg THEN 1 ELSE 0),
              draws |-> acc.draws + (IF hg = ag THEN 1 ELSE 0)]
        ELSE [team2_goals |-> acc.team2_goals + hg,
              team1_goals |-> acc.team1_goals + ag,
              team2_wins |-> acc.team2_wins + (IF hg > ag THEN 1 ELSE 0),
              team1_wins |-> acc.team1_wins + (IF ag > hg THEN 1 ELSE 0),
              draws |-> acc.draws + (IF hg = ag THEN 1 ELSE 0)]

RECURSIVE H2HFold(_, _, _, _)
H2HFold(matches, i, acc, team1_norm) ==
    IF i > Len(matches) THEN acc
    ELSE H2HFold(matches, i + 1, H2HStep(acc, matches[i], team1_norm), team1_norm)

\* QueryExecutor.find_matches_between_teams
find_matches_between_teams(st, team1, team2, limit) ==
    LET team1_norm == normalize_team_name(team1)
        team2_norm == normalize_team_name(team2)
        matches == BetweenTeamsQuery(st, team1_norm, team2_norm, limit)
        h == H2HFold(matches, 1, NoH2H, team1_norm)
    IN  [team1 |-> team1_norm, team2 |-> team2_norm,
         total_matches |-> Len(matches),
         team1_wins |-> h.team1_wins, team2_wins |-> h.team2_wins,
         draws |-> h.draws,
         team1_goals |-> h.team1_goals, team2_goals |-> h.team2_goals,
         matches |-> matches]

\* the Cypher of get_season_standings: no ORDER BY, the scan order
SeasonQuery(st, competition, season) ==
    LET Matching(m) ==
            Contains(m.competition, competition) /\ m.season = Some(season)
    IN  SelectSeq(st.matches, Matching)

\* standings is a dict in insertion order: a sequence of rows, one per team
NewRow(team) ==
    [team |-> team, matches |-> 0, wins |-> 0, draws |-> 0, losses |-> 0,
     goals_for |-> 0, goals_against |-> 0, points |-> 0]

\* `if team not in standings: standings[team] = {...}`
EnsureRow(rows, team) ==
    IF \E i \in 1..Len(rows) : rows[i].team = team THEN rows
    ELSE Append(rows, NewRow(team))

\* standings[team][field] += by
AddTo(rows, team, field, by) ==
    [i \in 1..Len(rows) |->
        IF rows[i].team = team
        THEN [rows[i] EXCEPT ![field] = @ + by]
        ELSE rows[i]]

\* a plausible slip: the loser of a match is not given the loss
StandingsResultNoLoss(rows, home, away, hg, ag) ==
    IF hg > ag
    THEN AddTo(AddTo(rows, home, "wins", 1), home, "points", 3)
    ELSE IF ag > hg
    THEN AddTo(AddTo(AddTo(rows, away, "wins", 1), away, "points", 3),
               home, "losses", 1)
    ELSE AddTo(AddTo(AddTo(AddTo(rows, home, "draws", 1), home, "points", 1),
                     away, "draws", 1), away, "points", 1)

\* "Determine winner" in get_season_standings
StandingsResult(rows, home, away, hg, ag) ==
    IF hg > ag
    THEN AddTo(AddTo(AddTo(rows, home, "wins", 1), home, "points", 3),
               away, "losses", 1)
    ELSE IF ag > hg
    THEN AddTo(AddTo(AddTo(rows, away, "wins", 1), away, "points", 3),
               home, "losses", 1)
    ELSE AddTo(AddTo(AddTo(AddTo(rows, home, "draws", 1), home, "points", 1),
                     away, "draws", 1), away, "points", 1)

\* a plausible slip: the away side's match is not counted
StandingsStepAwayNotCounted(rows, m) ==
    LET home == m.home_team
        away == m.away_team
        hg == m.home_goals
        ag == m.away_goals
        r0 == EnsureRow(EnsureRow(rows, home), away)
        r1 == AddTo(AddTo(AddTo(r0, home, "matches", 1), home, "goals_for", hg),
                    home, "goals_against", ag)
        r2 == AddTo(AddTo(r1, away, "goals_for", ag), away, "goals_against", hg)
    IN  StandingsResult(r2, home, away, hg, ag)

\* the body of `for r in results` in get_season_standings
StandingsStep(rows, m) ==
    LET home == m.home_team
        away == m.away_team
        hg == m.home_goals
        ag == m.away_goals
        r0 == EnsureRow(EnsureRow(rows, home), away)
        r1 == AddTo(AddTo(AddTo(r0, home, "matches", 1), home, "goals_for", hg),
                    home, "goals_against", ag)
        r2 == AddTo(AddTo(AddTo(r1, away, "matches", 1), away, "goals_for", ag),
                    away, "goals_against", hg)
    IN  StandingsResult(r2, home, away, hg, ag)

RECURSIVE StandingsFold(_, _, _)
StandingsFold(matches, i, rows) ==
    IF i > Len(matches) THEN rows
    ELSE StandingsFold(matches, i + 1, StandingsStep(rows, matches[i]))

\* a plausible slip: the table is sorted by points alone
StandingsBeforePointsOnly(a, b) == a.points > b.points

\* the sort key (points, goal difference, goals_for), compared as tuples:
\* a sorts before b under reverse=True
StandingsBefore(a, b) ==
    LET gda == a.goals_for - a.goals_against
        gdb == b.goals_for - b.goals_against
    IN  \/ a.points > b.points
        \/ a.points = b.points /\ gda > gdb
        \/ a.points = b.points /\ gda = gdb /\ a.goals_for > b.goals_for

RECURSIVE InsertStanding(_, _)
InsertStanding(sorted, x) ==
    IF Len(sorted) = 0 THEN <<x>>
    ELSE IF StandingsBefore(x, Head(sorted)) THEN <<x>> \o sorted
    ELSE <<Head(sorted)>> \o InsertStanding(Tail(sorted), x)

\* sorted(standings.values(), key=..., reverse=True): rows of equal key keep
\* their order
RECURSIVE SortStandings(_)
SortStandings(rows) ==
    IF Len(rows) = 0 THEN <<>>
    ELSE InsertStanding(SortStandings(SubSeq(rows, 1, Len(rows) - 1)),
                        rows[Len(rows)])

\* `for i, team in enumerate(sorted_standings, 1)`
Positioned(sorted) ==
    [i \in 1..Len(sorted) |->
        [team |-> sorted[i].team, matches |-> sorted[i].matches,
         wins |-> sorted[i].wins, draws |-> sorted[i].draws,
         losses |-> sorted[i].losses, goals_for |-> sorted[i].goals_for,
         goals_against |-> sorted[i].goals_against,
         points |-> sorted[i].points, position |-> i,
         goal_difference |-> sorted[i].goals_for - sorted[i].goals_against]]

\* QueryExecutor.get_season_standings
get_season_standings(st, competition, season) ==
    LET results == SeasonQuery(st, competition, season)
        sorted_standings == Positioned(SortStandings(StandingsFold(results, 1, <<>>)))
    IN  [competition |-> competition, season |-> season,
         total_teams |-> Len(sorted_standings),
         standings |-> sorted_standings]

\* round(): n / d to the nearest integer, a half to the even neighbour
RoundHalfEven(n, d) ==
    LET q == n \div d
        r == n % d
    IN  IF 2 * r < d THEN q
        ELSE IF 2 * r > d THEN q + 1
        ELSE IF q % 2 = 0 THEN q ELSE q + 1

\* the WHERE clause of get_league_statistics; `if season:` leaves None and 0
\* out of it
LeagueQuery(st, competition, season) ==
    LET Matching(m) ==
            /\ Contains(m.competition, competition)
            /\ (season # None /\ season[1] # 0) => m.season = season
    IN  SelectSeq(st.matches, Matching)

RECURSIVE SumGoals(_, _)
SumGoals(matches, i) ==
    IF i > Len(matches) THEN 0
    ELSE matches[i].home_goals + matches[i].away_goals + SumGoals(matches, i + 1)

\* a plausible slip: a draw is counted as a home win too
LeagueAggregateDrawAsHomeWin(matches) ==
    LET HomeWin(m) == m.home_goals >= m.away_goals
        AwayWin(m) == m.away_goals > m.home_goals
        Draw(m) == m.home_goals = m.away_goals
    IN  [total_matches |-> Len(matches),
         total_goals |-> SumGoals(matches, 1),
         home_wins |-> Len(SelectSeq(matches, HomeWin)),
         away_wins |-> Len(SelectSeq(matches, AwayWin)),
         draws |-> Len(SelectSeq(matches, Draw))]

\* the RETURN clause of get_league_statistics: one row of aggregates;
\* sum(CASE WHEN ... THEN 1 ELSE 0 END) counts the rows of the case
LeagueAggregate(matches) ==
    LET HomeWin(m) == m.home_goals > m.away_goals
        AwayWin(m) == m.away_goals > m.home_goals
        Draw(m) == m.home_goals = m.away_goals
    IN  [total_matches |-> Len(matches),
         total_goals |-> SumGoals(matches, 1),
         home_wins |-> Len(SelectSeq(matches, HomeWin)),
         away_wins |-> Len(SelectSeq(matches, AwayWin)),
         draws |-> Len(SelectSeq(matches, Draw))]

\* QueryExecutor.get_league_statistics.  The rates are in tenths of a per
\* cent and avg_goals_per_match in hundredths of a goal (round(x, 1) and
\* round(x, 2)).  Over no match avg() is null and round(None, 2) raises.
get_league_statistics(st, competition, season) ==
    LET stats_row == LeagueAggregate(LeagueQuery(st, competition, season))
        total == stats_row.total_matches
    IN  IF total = 0
        THEN [raised |-> "TypeError", competition |-> competition,
              season |-> season, total_matches |-> 0, total_goals |-> 0,
              avg_goals_per_match |-> 0, home_wins |-> 0, away_wins |-> 0,
              draws |-> 0, home_win_rate |-> 0, away_win_rate |-> 0,
              draw_rate |-> 0]
        ELSE [raised |-> "", competition |-> competition, season |-> season,
              total_matches |-> total,
              total_goals |-> stats_row.total_goals,
              avg_goals_per_match |-> RoundHalfEven(100 * stats_row.total_goals, total),
              home_wins |-> stats_row.home_wins,
              away_wins |-> stats_row.away_wins,
              draws |-> stats_row.draws,
              home_win_rate |-> RoundHalfEven(1000 * stats_row.home_wins, total),
              away_win_rate |-> RoundHalfEven(1000 * stats_row.away_wins, total),
              draw_rate |-> RoundHalfEven(1000 * stats_row.draws, total)]

\* `if season:` and `if competition:` of the optional filters: None, 0 and
\* "" leave the filter out
SeasonIsSet(season) == season # None /\ season[1] # 0

CompetitionIsSet(competition) == competition # None /\ competition[1] # ""

\* the WHERE conditions shared by the optional filters
OptionalFilters(m, season, competition) ==
    /\ SeasonIsSet(season) => m.season = season
    /\ CompetitionIsSet(competition) => Contains(m.competition, competition[1])

\* a plausible slip: away_only is looked at first
TeamConditionAwayFirst(m, team, home_only, away_only) ==
    IF away_only THEN m.away_team = team
    ELSE IF home_only THEN m.home_team = team
    ELSE m.home_team = team \/ m.away_team = team

\* `if home_only: ... elif away_only: ... else: ...` of find_matches_by_team
TeamCondition(m, team, home_only, away_only) ==
    IF home_only THEN m.home_team = team
    ELSE IF away_only THEN m.away_team = team
    ELSE m.home_team = team \/ m.away_team = team

\* the Cypher of find_matches_by_team
ByTeamQuery(st, team, season, competition, home_only, away_only, limit) ==
    LET Matching(m) ==
            /\ TeamCondition(m, team, home_only, away_only)
            /\ OptionalFilters(m, season, competition)
    IN  Limit(OrderByDatetimeDesc(SelectSeq(st.matches, Matching)), limit)

NoTally == [wins |-> 0, losses |-> 0, draws |-> 0, goals_for |-> 0, goals_against |-> 0]

\* the body of `for m in matches` in find_matches_by_team
TeamStep(acc, m, team_norm) ==
    LET hg == m.home_goals
        ag == m.away_goals
    IN  IF m.home_team = team_norm
        THEN [goals_for |-> acc.goals_for + hg,
              goals_against |-> acc.goals_against + ag,
              wins |-> acc.wins + (IF hg > ag THEN 1 ELSE 0),
              losses |-> acc.losses + (IF ag > hg THEN 1 ELSE 0),
              draws |-> acc.draws + (IF hg = ag THEN 1 ELSE 0)]
        ELSE [goals_for |-> acc.goals_for + ag,
              goals_against |-> acc.goals_against + hg,
              wins |-> acc.wins + (IF ag > hg THEN 1 ELSE 0),
              losses |-> acc.losses + (IF hg > ag THEN 1 ELSE 0),
              draws |-> acc.draws + (IF hg = ag THEN 1 ELSE 0)]

RECURSIVE TeamFold(_, _, _, _)
TeamFold(matches, i, acc, team_norm) ==
    IF i > Len(matches) THEN acc
    ELSE TeamFold(matches, i + 1, TeamStep(acc, matches[i], team_norm), team_norm)

\* QueryExecutor.find_matches_by_team
find_matches_by_team(st, team, season, competition, home_only, away_only, limit) ==
    LET team_norm == normalize_team_name(team)
        matches == ByTeamQuery(st, team_norm, season, competition,
                               home_only, away_only, limit)
        t == TeamFold(matches, 1, NoTally, team_norm)
    IN  [team |-> team_norm, total_matches |-> Len(matches),
         wins |-> t.wins, losses |-> t.losses, draws |-> t.draws,
         goals_for |-> t.goals_for, goals_against |-> t.goals_against,
         goal_difference |-> t.goals_for - t.goals_against,
         points |-> t.wins * 3 + t.draws,
         matches |-> matches]

\* limit=1000 of the three calls of get_team_statistics
StatsLimit == 1000

\* a plausible slip: the rate is cut off after the first decimal
WinRateTruncated(wins, total_matches) ==
    IF total_matches > 0 THEN (1000 * wins) \div total_matches ELSE 0

\* round(wins / total_matches * 100, 1) if total_matches > 0 else 0, in
\* tenths of a per cent
WinRate(wins, total_matches) ==
    IF total_matches > 0 THEN RoundHalfEven(1000 * wins, total_matches) ELSE 0

\* QueryExecutor.get_team_statistics
get_team_statistics(st, team, season, competition) ==
    LET overall == find_matches_by_team(st, team, season, competition,
                                        FALSE, FALSE, StatsLimit)
        home == find_matches_by_team(st, team, season, competition,
                                     TRUE, FALSE, StatsLimit)
        away == find_matches_by_team(st, team, season, competition,
                                     FALSE, TRUE, StatsLimit)
    IN  [team |-> overall.team, season |-> season, competition |-> competition,
         overall |-> [matches |-> overall.total_matches, wins |-> overall.wins,
                      draws |-> overall.draws, losses |-> overall.losses,
                      goals_for |-> overall.goals_for,
                      goals_against |-> overall.goals_against,
                      goal_difference |-> overall.goal_difference,
                      points |-> overall.points,
                      win_rate |-> WinRate(overall.wins, overall.total_matches)],
         home |-> [matches |-> home.total_matches, wins |-> home.wins,
                   draws |-> home.draws, losses |-> home.losses,
                   goals_for |-> home.goals_for,
                   goals_against |-> home.goals_against,
                   win_rate |-> WinRate(home.wins, home.total_matches)],
         away |-> [matches |-> away.total_matches, wins |-> away.wins,
                   draws |-> away.draws, losses |-> away.losses,
                   goals_for |-> away.goals_for,
                   goals_against |-> away.goals_against,
                   win_rate |-> WinRate(away.wins, away.total_matches)]]

\* RETURN DISTINCT m.season ... ORDER BY m.season: the seasons of the
\* competition, ascending
RECURSIVE Ascending(_)
Ascending(S) ==
    IF S = {} THEN <<>>
    ELSE LET least == CHOOSE x \in S : \A y \in S : x <= y
         IN  <<least>> \o Ascending(S \ {least})

SeasonsQuery(st, competition) ==
    Ascending({ st.matches[i].season[1] :
                  i \in { j \in 1..Len(st.matches) :
                            /\ Contains(st.matches[j].competition, competition)
                            /\ st.matches[j].season # None } })

\* a plausible slip: a season equal to a bound is left out
SeasonInRangeExclusive(season, start_year, end_year) ==
    /\ ~(start_year # None /\ start_year[1] # 0 /\ season <= start_year[1])
    /\ ~(end_year # None /\ end_year[1] # 0 /\ season >= end_year[1])

\* the two `continue` tests of get_competition_winners
SeasonInRange(season, start_year, end_year) ==
    /\ ~(start_year # None /\ start_year[1] # 0 /\ season < start_year[1])
    /\ ~(end_year # None /\ end_year[1] # 0 /\ season > end_year[1])

\* the body of `for r in results` in get_competition_winners
WinnersStep(st, competition, winners, season, start_year, end_year) ==
    IF ~SeasonInRange(season, start_year, end_year) THEN winners
    ELSE LET standings == get_season_standings(st, competition, season) IN
         IF Len(standings.standings) = 0 THEN winners
         ELSE LET winner == standings.standings[1] IN
              Append(winners, [season |-> season, winner |-> winner.team,
                               points |-> winner.points, wins |-> winner.wins,
                               goals_for |-> winner.goals_for])

RECURSIVE WinnersFold(_, _, _, _, _, _, _)
WinnersFold(st, competition, seasons, i, winners, start_year, end_year) ==
    IF i > Len(seasons) THEN winners
    ELSE WinnersFold(st, competition, seasons, i + 1,
                     WinnersStep(st, competition, winners, seasons[i],
                                 start_year, end_year),
                     start_year, end_year)

\* QueryExecutor.get_competition_winners
get_competition_winners(st, competition, start_year, end_year) ==
    LET winners == WinnersFold(st, competition, SeasonsQuery(st, competition), 1,
                               <<>>, start_year, end_year)
    IN  [competition |-> competition, total_seasons |-> Len(winners),
         winners |-> winners]

Abs(n) == IF n < 0 THEN 0 - n ELSE n

Max(a, b) == IF a > b THEN a ELSE b

Min(a, b) == IF a < b THEN a ELSE b

\* a plausible slip: equal goal differences are not ordered by total goals
BiggestBeforeDiffOnly(a, b) == a.goal_diff > b.goal_diff

\* ORDER BY goal_diff DESC, m.total_goals DESC
BiggestBefore(a, b) ==
    \/ a.goal_diff > b.goal_diff
    \/ a.goal_diff = b.goal_diff /\ a.m.total_goals > b.m.total_goals

RECURSIVE InsertBiggest(_, _)
InsertBiggest(sorted, x) ==
    IF Len(sorted) = 0 THEN <<x>>
    ELSE IF BiggestBefore(x, Head(sorted)) THEN <<x>> \o sorted
    ELSE <<Head(sorted)>> \o InsertBiggest(Tail(sorted), x)

RECURSIVE OrderBiggest(_)
OrderBiggest(rows) ==
    IF Len(rows) = 0 THEN <<>>
    ELSE InsertBiggest(OrderBiggest(SubSeq(rows, 1, Len(rows) - 1)), rows[Len(rows)])

\* the Cypher of get_biggest_wins: rows of m and goal_diff
BiggestWinsQuery(st, competition, season, limit) ==
    LET Matching(m) == OptionalFilters(m, season, competition)
        filtered == SelectSeq(st.matches, Matching)
        with_diff == [i \in 1..Len(filtered) |->
                        [m |-> filtered[i],
                         goal_diff |-> Abs(filtered[i].home_goals - filtered[i].away_goals)]]
        Decided(r) == r.goal_diff > 0
    IN  Limit(OrderBiggest(SelectSeq(with_diff, Decided)), limit)

\* the body of `for r in results` in get_biggest_wins
BiggestEntry(r) ==
    LET m == r.m
        hg == m.home_goals
        ag == m.away_goals
    IN  [datetime |-> m.datetime,
         winner |-> IF hg > ag THEN m.home_team ELSE m.away_team,
         loser |-> IF hg > ag THEN m.away_team ELSE m.home_team,
         score |-> IntToStr(Max(hg, ag)) \o "-" \o IntToStr(Min(hg, ag)),
         goal_difference |-> r.goal_diff,
         competition |-> m.competition,
         season |-> m.season]

\* QueryExecutor.get_biggest_wins
get_biggest_wins(st, competition, season, limit) ==
    LET results == BiggestWinsQuery(st, competition, season, limit)
        matches == [i \in 1..Len(results) |-> BiggestEntry(results[i])]
    IN  [total |-> Len(matches), matches |-> matches]

\* collect({team: m.home_team, goals: m.home_goals}) +
\* collect({team: m.away_team, goals: m.away_goals}), unwound
AllGoals(matches) ==
    [i \in 1..Len(matches) |-> [team |-> matches[i].home_team, goals |-> matches[i].home_goals]]
    \o
    [i \in 1..Len(matches) |-> [team |-> matches[i].away_team, goals |-> matches[i].away_goals]]

\* RETURN team, sum(goals): one row per team, in the order the teams appear
RECURSIVE SumByTeam(_, _, _)
SumByTeam(all_goals, i, rows) ==
    IF i > Len(all_goals) THEN rows
    ELSE LET g == all_goals[i]
             seen == \E k \in 1..Len(rows) : rows[k].team = g.team
         IN  SumByTeam(all_goals, i + 1,
                 IF seen
                 THEN [k \in 1..Len(rows) |->
                         IF rows[k].team = g.team
                         THEN [rows[k] EXCEPT !.goals = @ + g.goals]
                         ELSE rows[k]]
                 ELSE Append(rows, [team |-> g.team, goals |-> g.goals]))

\* ORDER BY total_goals DESC
RECURSIVE InsertByGoals(_, _)
InsertByGoals(sorted, x) ==
    IF Len(sorted) = 0 THEN <<x>>
    ELSE IF x.goals > Head(sorted).goals THEN <<x>> \o sorted
    ELSE <<Head(sorted)>> \o InsertByGoals(Tail(sorted), x)

RECURSIVE OrderByGoals(_)
OrderByGoals(rows) ==
    IF Len(rows) = 0 THEN <<>>
    ELSE InsertByGoals(OrderByGoals(SubSeq(rows, 1, Len(rows) - 1)), rows[Len(rows)])

\* QueryExecutor.get_top_scoring_teams
get_top_scoring_teams(st, competition, season, limit) ==
    LET Matching(m) == OptionalFilters(m, season, competition)
        matched == SelectSeq(st.matches, Matching)
        results == Limit(OrderByGoals(SumByTeam(AllGoals(matched), 1, <<>>)), limit)
    IN  [competition |-> competition, season |-> season, teams |-> results]

(***************************************************************************)
(* The data directories the loader is run on.                              *)
(***************************************************************************)
\* home and away team cells with their state cells
Pairings ==
    { [home |-> StrCell("Flamengo"), away |-> StrCell("Fluminense"),
       home_state |-> StrCell("RJ"), away_state |-> StrCell("RJ")],
      [home |-> StrCell("Atletico Mineiro"), away |-> StrCell("Atletico-MG"),
       home_state |-> StrCell("MG"), away_state |-> NaN],
      [home |-> StrCell("Palmeiras"), away |-> StrCell("Palmeiras-SP"),
       home_state |-> NaN, away_state |-> StrCell("SP")],
      [home |-> NaN, away |-> StrCell("Flamengo"),
       home_state |-> NaN, away_state |-> StrCell("RJ")] }

\* the other cells of a match row
Fixtures ==
    { [date |-> StrCell("2020-05-20"), season |-> IntCell(2020),
       home_goal |-> IntCell(2), away_goal |-> IntCell(1),
       round |-> IntCell(3), stadium |-> StrCell("Maracana"),
       tournament |-> StrCell("Copa do Brasil")],
      [date |-> StrCell("20/05/2020"), season |-> NaN,
       home_goal |-> NaN, away_goal |-> StrCell("x"),
       round |-> NaN, stadium |-> NaN,
       tournament |-> StrCell("Serie A")],
      [date |-> StrCell("sem data"), season |-> IntCell(2020),
       home_goal |-> IntCell(0), away_goal |-> StrCell("3"),
       round |-> StrCell("Final"), stadium |-> NoColumn,
       tournament |-> StrCell("CONMEBOL Libertadores")] }

MatchRow(p, f) ==
    [date |-> f.date, home |-> p.home, away |-> p.away,
     home_goal |-> f.home_goal, away_goal |-> f.away_goal,
     season |-> f.season, home_state |-> p.home_state,
     away_state |-> p.away_state, round |-> f.round,
     stadium |-> f.stadium, tournament |-> f.tournament]

\* the rows a match file is made of: every fixture of Flamengo against
\* Fluminense, and the fully filled fixture of every pairing
MatchRows ==
    { MatchRow(p, f) : p \in { q \in Pairings : q.home = StrCell("Flamengo") },
                       f \in Fixtures }
    \cup
    { MatchRow(p, f) : p \in Pairings,
                       f \in { g \in Fixtures : g.date = StrCell("2020-05-20") } }

PlayerRows ==
    { [ID |-> IntCell(7), Name |-> StrCell("Gabriel Barbosa"),
       Age |-> IntCell(23), Nationality |-> StrCell("Brazil"),
       Overall |-> IntCell(83), Potential |-> IntCell(86),
       Club |-> StrCell("Flamengo-RJ"), Position |-> StrCell("ST")],
      [ID |-> IntCell(7), Name |-> StrCell("Gabigol"),
       Age |-> NaN, Nationality |-> NaN,
       Overall |-> NaN, Potential |-> StrCell("unrated"),
       Club |-> NaN, Position |-> NaN],
      [ID |-> NaN, Name |-> StrCell("Sem Id"),
       Age |-> IntCell(30), Nationality |-> StrCell("Brazil"),
       Overall |-> IntCell(70), Potential |-> IntCell(70),
       Club |-> StrCell("Atletico Mineiro"), Position |-> StrCell("GK")] }

RowsOf(src) == IF src = FifaFile THEN PlayerRows ELSE MatchRows

RECURSIVE SeqsOfLen(_, _)
SeqsOfLen(S, n) ==
    IF n = 0 THEN {<<>>}
    ELSE { Append(q, x) : q \in SeqsOfLen(S, n - 1), x \in S }

AbsentFile == [present |-> FALSE, rows |-> <<>>]

\* a file of n rows; no rows stands for a file that is not on disk
FilesWith(src, n) ==
    IF n = 0 THEN {AbsentFile}
    ELSE { [present |-> TRUE, rows |-> r] : r \in SeqsOfLen(RowsOf(src), n) }

\* the data directories for the sources src.., holding at most budget rows
RECURSIVE Directories(_, _)
Directories(src, budget) ==
    IF src > Len(SourceNames) THEN {<<>>}
    ELSE UNION { { <<f>> \o rest : f \in FilesWith(src, n),
                                   rest \in Directories(src + 1, budget - n) }
                 : n \in 0..budget }

NoStats == [teams |-> 0, players |-> 0, matches |-> 0, competitions |-> 0]

\* a connection nothing has been called on, to a store that can be reached
NoConn == [reachable |-> TRUE, schema |-> {}, call |-> "none", down |-> FALSE,
           outcome |-> "none", sent |-> 0]

(***************************************************************************)
(* SpecNorm: the normaliser applied to a raw name, and to its own result.  *)
(***************************************************************************)
\* the characters raw names are generated from
Alphabet == {"a", "G", "M", "-", " ", "é"}

RECURSIVE StringsUpTo(_)
StringsUpTo(n) ==
    IF n = 0 THEN {""}
    ELSE LET S == StringsUpTo(n - 1) IN
         S \cup { s \o c : s \in S, c \in Alphabet }

\* names as the data sources and the documentation write them
KnownNames ==
    { p[1] : p \in team_mappings } \cup
    { "Palmeiras-SP", "Flamengo-RJ", "Palmeiras", "Flamengo", "Fluminense",
      "Grêmio", "São Paulo", "  Sao   Paulo FC ", "Atlético Mineiro",
      "Atletico Mineiro-MG", "Botafogo-SP-RJ" }

RawNames == KnownNames \cup StringsUpTo(MaxLen)

InitNorm ==
    /\ raw \in RawNames
    /\ normOnce = ""
    /\ normTwice = ""
    /\ npc = "raw"
    /\ store = EmptyStore
    /\ files = <<>>
    /\ teams_cache = <<>>
    /\ pc = "off"
    /\ stats = NoStats
    /\ runCounts = <<>>
    /\ qres = NoResult
    /\ conn = NoConn

\* normalize_team_name(raw)
Normalize ==
    /\ npc = "raw"
    /\ normOnce' = normalize_team_name(raw)
    /\ npc' = "once"
    /\ UNCHANGED <<raw, normTwice, store, loadVars, qres, conn>>

\* normalize_team_name(normalize_team_name(raw))
NormalizeAgain ==
    /\ npc = "once"
    /\ normTwice' = normalize_team_name(normOnce)
    /\ npc' = "twice"
    /\ UNCHANGED <<raw, normOnce, store, loadVars, qres, conn>>

NextNorm == Normalize \/ NormalizeAgain

SpecNorm == InitNorm /\ [][NextNorm]_vars

(***************************************************************************)
(* C1: normalize_team_name is idempotent: normalising a normalised name    *)
(* gives the same name, for every raw name, names of the alias table       *)
(* included.                                                               *)
(***************************************************************************)
C1_NormalizeIdempotent == npc = "twice" => normTwice = normOnce

(***************************************************************************)
(* C2: "Atletico Mineiro", "Atletico-MG" and "Atletico MG" all normalise   *)
(* to the one canonical name "Atletico-MG".                                *)
(***************************************************************************)
C2_AtleticoEquivalence ==
    (npc # "raw" /\ raw \in {"Atletico Mineiro", "Atletico-MG", "Atletico MG"})
        => normOnce = "Atletico-MG"

(***************************************************************************)
(* SpecLoad: initialize_database, run up to MaxRuns times on one data      *)
(* directory and one store that starts empty.  Each action is one step of  *)
(* DataLoader.load_all.                                                    *)
(***************************************************************************)
InitLoad ==
    /\ raw = "" /\ normOnce = "" /\ normTwice = "" /\ npc = "off"
    /\ store = EmptyStore
    /\ files \in Directories(1, MaxRows)
    /\ teams_cache = <<>>
    /\ pc = "idle"
    /\ stats = NoStats
    /\ runCounts = <<>>
    /\ qres = NoResult
    /\ conn = NoConn

\* server.initialize_database: a new DataLoader (an empty _teams_cache), and
\* load_all up to _create_competitions
StartLoadAll ==
    /\ pc \in {"idle", "done"}
    /\ Len(runCounts) < MaxRuns
    /\ teams_cache' = <<>>
    /\ store' = create_competitions(store)
    /\ stats' = [NoStats EXCEPT !.competitions = 3]
    /\ pc' = "brasileirao"
    /\ UNCHANGED <<normVars, files, runCounts, qres, conn>>

\* the step of load_all that runs the loader of match source src
LoadStep(src, here, next) ==
    /\ pc = here
    /\ LET r == LoadMatchFile(src, files[src], teams_cache, store) IN
       /\ teams_cache' = r.cache
       /\ store' = r.st
       /\ stats' = [stats EXCEPT !.matches = @ + r.count]
    /\ pc' = next
    /\ UNCHANGED <<normVars, files, runCounts, qres, conn>>

load_brasileirao_matches == LoadStep(BrasileiraoFile, "brasileirao", "copa")

load_copa_brasil_matches == LoadStep(CopaBrasilFile, "copa", "libertadores")

load_libertadores_matches == LoadStep(LibertadoresFile, "libertadores", "historical")

load_historical_brasileirao == LoadStep(HistoricalFile, "historical", "extended")

load_extended_statistics == LoadStep(ExtendedFile, "extended", "teams")

\* load_all: _create_teams and stats["teams"]
CreateTeams ==
    /\ pc = "teams"
    /\ store' = create_teams(store, teams_cache)
    /\ stats' = [stats EXCEPT !.teams = Len(teams_cache)]
    /\ pc' = "players"
    /\ UNCHANGED <<normVars, files, teams_cache, runCounts, qres, conn>>

\* load_all: _load_fifa_players, and the return of stats
LoadPlayersAndReturn ==
    /\ pc = "players"
    /\ LET r == LoadPlayerFile(files[FifaFile], store) IN
       /\ store' = r.st
       /\ stats' = [stats EXCEPT !.players = r.count]
       /\ runCounts' = Append(runCounts, Counts(r.st))
    /\ pc' = "done"
    /\ UNCHANGED <<normVars, files, teams_cache, qres, conn>>

NextLoad ==
    \/ StartLoadAll
    \/ load_brasileirao_matches
    \/ load_copa_brasil_matches
    \/ load_libertadores_matches
    \/ load_historical_brasileirao
    \/ load_extended_statistics
    \/ CreateTeams
    \/ LoadPlayersAndReturn

SpecLoad == InitLoad /\ [][NextLoad]_vars

\* the Match nodes of the store, and the edges of one
MatchIds(st) == { st.matches[i].id : i \in 1..Len(st.matches) }

HasEdge(st, type, id) == \E e \in st.edges : e[1] = type /\ e[2] = id

(***************************************************************************)
(* C3: running load_all twice on the same sources, from an empty store,    *)
(* leaves as many nodes of every label and edges of every type as running  *)
(* it once.                                                                *)
(***************************************************************************)
C3_LoadAllTwiceSameCounts ==
    Len(runCounts) >= 2 => runCounts[2] = runCounts[1]

(***************************************************************************)
(* C4: no two Match nodes of the store have the same id, and every re-run  *)
(* of the ingestion over the same input leaves as many Match nodes as the  *)
(* first run did.                                                          *)
(***************************************************************************)
C4_MatchCountStable ==
    /\ \A i, j \in 1..Len(store.matches) :
           store.matches[i].id = store.matches[j].id => i = j
    /\ \A k \in 1..Len(runCounts) : runCounts[k].Match = runCounts[1].Match

\* a second run has ended over rows that wrote a Match, two of them under
\* one id
C4_Witness ==
    /\ Len(runCounts) >= 2
    /\ runCounts[1].Match >= 1
    /\ stats.matches > runCounts[1].Match

(***************************************************************************)
(* C5: when the first load_all on an empty store returns, every stored     *)
(* Match has a HOME_TEAM, an AWAY_TEAM and a PART_OF edge.                 *)
(***************************************************************************)
C5_EdgesAfterFirstLoad ==
    (pc = "done" /\ Len(runCounts) = 1) =>
        \A id \in MatchIds(store) :
            /\ HasEdge(store, "HOME_TEAM", id)
            /\ HasEdge(store, "AWAY_TEAM", id)
            /\ HasEdge(store, "PART_OF", id)

\* the steps of load_all that run a match loader, in the order of the code
MatchSteps ==
    { [src |-> BrasileiraoFile, here |-> "brasileirao", next |-> "copa"],
      [src |-> CopaBrasilFile, here |-> "copa", next |-> "libertadores"],
      [src |-> LibertadoresFile, here |-> "libertadores", next |-> "historical"],
      [src |-> HistoricalFile, here |-> "historical", next |-> "extended"],
      [src |-> ExtendedFile, here |-> "extended", next |-> "teams"] }

\* a row a match loader does not skip
HasBothTeams(row) ==
    /\ PyStr(RowGet(row, "home", StrCell(""))) # ""
    /\ PyStr(RowGet(row, "away", StrCell(""))) # ""

(***************************************************************************)
(* C12: whichever source files are absent from disk, load_all goes through *)
(* its steps in order; the step of an absent match source adds nothing to  *)
(* the counts, the store or the team cache; the step of a present source   *)
(* counts and stores each of its rows that names both teams; the team step *)
(* follows the five match steps, and the player step, which reports zero   *)
(* players and leaves the store alone when its file is absent, returns the *)
(* counts.                                                                 *)
(***************************************************************************)
C12_AbsentSourcesContributeZero ==
    [][/\ \A s \in MatchSteps :
              pc = s.here =>
                  /\ pc' = s.next
                  /\ ~files[s.src].present =>
                         /\ stats' = stats
                         /\ store' = store
                         /\ teams_cache' = teams_cache
                  /\ files[s.src].present =>
                         /\ stats'.matches = stats.matches
                               + Len(SelectSeq(files[s.src].rows, HasBothTeams))
                         /\ \A i \in 1..Len(files[s.src].rows) :
                                HasBothTeams(files[s.src].rows[i]) =>
                                    RowMatch(s.src, files[s.src].rows[i]).id
                                        \in MatchIds(store')
       /\ pc = "teams" =>
              /\ pc' = "players"
              /\ stats'.teams = Len(teams_cache)
              /\ stats'.matches = stats.matches
       /\ pc = "players" =>
              /\ pc' = "done"
              /\ Len(runCounts') = Len(runCounts) + 1
              /\ stats'.matches = stats.matches
              /\ stats'.teams = stats.teams
              /\ stats'.competitions = 3
              /\ ~files[FifaFile].present =>
                     stats'.players = 0 /\ store' = store
      ]_vars

\* load_all has returned over a directory in which one match source is
\* present and loaded a match, and the other match sources and the player
\* file are absent
C12_Witness ==
    /\ pc = "done"
    /\ stats.matches >= 1
    /\ \E s \in MatchSteps :
           /\ files[s.src].present
           /\ \A t \in MatchSteps \ {s} : ~files[t.src].present
    /\ ~files[FifaFile].present
    /\ stats.players = 0

(***************************************************************************)
(* SpecQuery: Match nodes are written to a store that starts empty, by the *)
(* write of _create_match_node, and QueryExecutor operations are run on    *)
(* what is stored.  qres is the last operation, its arguments and what it  *)
(* returned.                                                               *)
(***************************************************************************)
\* the day, the loader's tag, the competition and the season of a match: a
\* row of Brasileirao_Matches.csv, and a row of BR-Football-Dataset.csv
\* without a date whose tournament reads "Copa do Brasil"
LeagueFixture ==
    [datetime |-> Some(20200501), tag |-> SourceTag(BrasileiraoFile),
     competition |-> BRASILEIRAO.name, season |-> Some(2020)]

CupFixture ==
    [datetime |-> None, tag |-> SourceTag(ExtendedFile),
     competition |-> COPA_DO_BRASIL.name, season |-> None]

\* the matches that can be written: raw home name, raw away name, fixture;
\* the third one is a team playing itself
QMatches ==
    { <<"Flamengo-RJ", "Fluminense", LeagueFixture>>,
      <<"Fluminense", "Flamengo", LeagueFixture>>,
      <<"Flamengo", "Flamengo-RJ", LeagueFixture>>,
      <<"Flamengo-RJ", "Fluminense", CupFixture>> }

\* home and away goals
QScores == { <<2, 1>>, <<0, 3>>, <<1, 1>> }

\* the arguments the queries are called with
QTeamArgs == { <<"Flamengo-RJ", "Fluminense">>, <<"Fluminense", "Flamengo-RJ">>,
               <<"Flamengo", "Flamengo">> }

QLimits == {1, 2, 50}

QCompetitions == {"Brasileirao", "Copa do Brasil"}

QSeasons == {2020}

InitQuery ==
    /\ raw = "" /\ normOnce = "" /\ normTwice = "" /\ npc = "off"
    /\ store = EmptyStore
    /\ files = <<>>
    /\ teams_cache = <<>>
    /\ pc = "off"
    /\ stats = NoStats
    /\ runCounts = <<>>
    /\ qres = NoResult
    /\ conn = NoConn

\* what the loader hands to _create_match_node for each of them: Match(...)
\* with its generated id, as to_dict() gives it
QWrites ==
    { MatchDict(generate_match_id(p[3].datetime, p[1], p[2], p[3].tag),
                p[3].datetime, p[1], p[2], g[1], g[2],
                p[3].competition, p[3].season, None, None)
      : p \in QMatches, g \in QScores }

\* a loader writes one Match: _create_match_node
UpsertMatch ==
    \E d \in QWrites :
        /\ Len(MergeMatch(store.matches, d)) <= MaxMatches
        /\ store' = create_match_node(store, d)
        /\ qres' = NoResult
        /\ UNCHANGED <<normVars, loadVars, conn>>

FindMatchesBetweenTeams ==
    \E t \in QTeamArgs, limit \in QLimits :
        /\ qres' = [op |-> "find_matches_between_teams",
                    team1 |-> t[1], team2 |-> t[2], limit |-> limit,
                    result |-> find_matches_between_teams(store, t[1], t[2], limit)]
        /\ UNCHANGED <<normVars, loadVars, store, conn>>

GetSeasonStandings ==
    \E competition \in QCompetitions, season \in QSeasons :
        /\ qres' = [op |-> "get_season_standings",
                    competition |-> competition, season |-> season,
                    result |-> get_season_standings(store, competition, season)]
        /\ UNCHANGED <<normVars, loadVars, store, conn>>

GetLeagueStatistics ==
    \E competition \in QCompetitions,
       season \in {None} \cup { Some(y) : y \in QSeasons } :
        /\ qres' = [op |-> "get_league_statistics",
                    competition |-> competition, season |-> season,
                    result |-> get_league_statistics(store, competition, season)]
        /\ UNCHANGED <<normVars, loadVars, store, conn>>

NextQuery ==
    \/ UpsertMatch
    \/ FindMatchesBetweenTeams
    \/ GetSeasonStandings
    \/ GetLeagueStatistics

SpecQuery == InitQuery /\ [][NextQuery]_vars

(***************************************************************************)
(* C6: every row of get_season_standings has wins + draws + losses =       *)
(* matches and points = 3 * wins + draws, also when a stored match has the *)
(* same team at home and away.                                             *)
(***************************************************************************)
C6_StandingsRowInvariant ==
    qres.op = "get_season_standings" =>
        \A i \in 1..Len(qres.result.standings) :
            LET row == qres.result.standings[i] IN
            /\ row.wins + row.draws + row.losses = row.matches
            /\ row.points = 3 * row.wins + row.draws

\* a table over a match of a team against itself, with a row that has won,
\* drawn and lost
C6_Witness ==
    /\ qres.op = "get_season_standings"
    /\ \E i \in 1..Len(store.matches) :
           /\ store.matches[i].home_team = store.matches[i].away_team
           /\ Contains(store.matches[i].competition, qres.competition)
           /\ store.matches[i].season = Some(qres.season)
    /\ \E i \in 1..Len(qres.result.standings) :
           LET row == qres.result.standings[i] IN
           row.wins >= 1 /\ row.draws >= 1 /\ row.losses >= 1

\* <<points, goal difference, goals_for>> of a row, and the order of tuples
RowKey(row) == <<row.points, row.goals_for - row.goals_against, row.goals_for>>

KeyLess(a, b) ==
    \/ a[1] < b[1]
    \/ a[1] = b[1] /\ a[2] < b[2]
    \/ a[1] = b[1] /\ a[2] = b[2] /\ a[3] < b[3]

\* the matches a standings call reads are Flamengo 2-1 Fluminense and
\* Fluminense 0-3 Flamengo
FlaFluScenario ==
    LET read == SeasonQuery(store, qres.competition, qres.season)
        Line(m) == <<m.home_team, m.home_goals, m.away_goals, m.away_team>>
    IN  { Line(read[i]) : i \in 1..Len(read) } =
            { <<"Flamengo", 2, 1, "Fluminense">>, <<"Fluminense", 0, 3, "Flamengo">> }

(***************************************************************************)
(* C7: the rows of get_season_standings do not increase by (points, goal   *)
(* difference, goals_for); row i has position i and goal_difference =      *)
(* goals_for - goals_against; Flamengo beating Fluminense 2-1 at home and  *)
(* 3-0 away gives Flamengo first with 6 points, Fluminense second with 0.  *)
(***************************************************************************)
C7_StandingsOrdered ==
    qres.op = "get_season_standings" =>
        LET rows == qres.result.standings IN
        /\ \A i \in 1..Len(rows) :
               /\ rows[i].position = i
               /\ rows[i].goal_difference = rows[i].goals_for - rows[i].goals_against
               /\ i < Len(rows) => ~KeyLess(RowKey(rows[i]), RowKey(rows[i + 1]))
        /\ FlaFluScenario =>
               /\ Len(rows) = 2
               /\ rows[1].team = "Flamengo" /\ rows[1].points = 6
               /\ rows[1].wins = 2
               /\ rows[2].team = "Fluminense" /\ rows[2].points = 0

\* the scenario's table, and a table whose two rows have the same points and
\* different goal differences
C7_Witness ==
    /\ qres.op = "get_season_standings"
    /\ FlaFluScenario
    /\ Len(qres.result.standings) = 2

(***************************************************************************)
(* C8: find_matches_between_teams returns team1_wins + team2_wins + draws  *)
(* = total_matches, the number of matches returned, which is at most       *)
(* limit.                                                                  *)
(***************************************************************************)
C8_HeadToHeadConservation ==
    qres.op = "find_matches_between_teams" =>
        /\ qres.result.team1_wins + qres.result.team2_wins + qres.result.draws
               = qres.result.total_matches
        /\ qres.result.total_matches = Len(qres.result.matches)
        /\ qres.result.total_matches <= qres.limit

\* a head-to-head of two different teams with a draw and a win of each side
C8_Witness ==
    /\ qres.op = "find_matches_between_teams"
    /\ qres.result.team1 # qres.result.team2
    /\ qres.result.draws >= 1
    /\ qres.result.team1_wins >= 1
    /\ qres.result.team2_wins >= 1

\* the two results of a head-to-head whose arguments were swapped agree
Mirrored(r, swapped) ==
    /\ swapped.total_matches = r.total_matches
    /\ swapped.draws = r.draws
    /\ swapped.team1 = r.team2
    /\ swapped.team2 = r.team1
    /\ swapped.team1_wins = r.team2_wins
    /\ swapped.team2_wins = r.team1_wins
    /\ swapped.team1_goals = r.team2_goals
    /\ swapped.team2_goals = r.team1_goals

(***************************************************************************)
(* C9 as stated: head-to-head is symmetric for all teams A and B: called   *)
(* with the teams swapped, on the same store and with the same limit, it   *)
(* reports the same total_matches and draws and each team's wins and       *)
(* goals, also when limit is smaller than the number of matches between    *)
(* the two.                                                                *)
(***************************************************************************)
C9_HeadToHeadSymmetric ==
    qres.op = "find_matches_between_teams" =>
        Mirrored(qres.result,
                 find_matches_between_teams(store, qres.team2, qres.team1, qres.limit))

(***************************************************************************)
(* C9 amended: head-to-head is symmetric for all teams A and B whose       *)
(* normalized names differ: called with the teams swapped, on the same     *)
(* store and with the same limit, it reports the same total_matches and    *)
(* draws and each team's wins and goals, also when limit is smaller than   *)
(* the number of matches between the two.                                  *)
(***************************************************************************)
C9_HeadToHeadSymmetricDistinct ==
    (/\ qres.op = "find_matches_between_teams"
     /\ normalize_team_name(qres.team1) # normalize_team_name(qres.team2)) =>
        Mirrored(qres.result,
                 find_matches_between_teams(store, qres.team2, qres.team1, qres.limit))

\* a head-to-head of two different teams that limit cut short, with more
\* goals on one side
C9_Witness ==
    /\ qres.op = "find_matches_between_teams"
    /\ qres.result.team1 # qres.result.team2
    /\ qres.result.total_matches = qres.limit
    /\ Len(BetweenTeamsQuery(store, qres.result.team1, qres.result.team2,
                             MaxMatches)) > qres.limit
    /\ qres.result.team1_goals # qres.result.team2_goals

(***************************************************************************)
(* C10: when the competition filter matches a stored match,                *)
(* get_league_statistics returns home_wins + away_wins + draws =           *)
(* total_matches and the three rates add up to between 98 and 102 per      *)
(* cent (the rates are in tenths of a per cent).                           *)
(***************************************************************************)
C10_LeagueRates ==
    (/\ qres.op = "get_league_statistics"
     /\ Len(LeagueQuery(store, qres.competition, qres.season)) >= 1) =>
        LET r == qres.result
            rates == r.home_win_rate + r.away_win_rate + r.draw_rate
        IN  /\ r.raised = ""
            /\ r.home_wins + r.away_wins + r.draws = r.total_matches
            /\ r.total_matches = Len(LeagueQuery(store, qres.competition, qres.season))
            /\ 980 <= rates /\ rates <= 1020

\* a league of a home win, an away win and a draw: each rate is rounded to
\* 33.3 and the sum is 99.9
C10_Witness ==
    /\ qres.op = "get_league_statistics"
    /\ qres.result.total_matches = 3
    /\ qres.result.home_win_rate = 333
    /\ qres.result.away_win_rate = 333
    /\ qres.result.draw_rate = 333

(***************************************************************************)
(* SpecAnalytics: Match nodes are written to a store that starts empty and *)
(* every operation of QueryExecutor that reads matches is run on what is   *)
(* stored.  Each query is sent through Neo4jConnection.execute, which runs *)
(* all the clauses of its Cypher text.                                     *)
(***************************************************************************)
\* the clauses of Cypher that change the graph
UpdatingClauses == {"CREATE", "MERGE", "SET", "DELETE", "DETACH DELETE", "REMOVE"}

\* the clauses of the Cypher text of find_matches_by_team, which
\* get_team_statistics sends three times
ByTeamClauses == <<"MATCH", "WHERE", "RETURN", "ORDER BY", "LIMIT">>

\* the clauses of the Cypher text of get_season_standings, which
\* get_competition_winners sends once per season
StandingsClauses == <<"MATCH", "WHERE", "RETURN">>

\* a plausible slip: get_season_standings stores the table it computed
CypherClausesCachingStandings(op) ==
    CASE op = "find_matches_between_teams" ->
            <<"MATCH", "WHERE", "RETURN", "ORDER BY", "LIMIT">>
      [] op = "find_matches_by_team" -> ByTeamClauses
      [] op = "get_team_statistics" -> ByTeamClauses \o ByTeamClauses \o ByTeamClauses
      [] op = "get_season_standings" -> StandingsClauses \o <<"MERGE", "SET">>
      [] op = "get_competition_winners" ->
            <<"MATCH", "WHERE", "RETURN", "ORDER BY">> \o StandingsClauses
      [] op = "get_biggest_wins" ->
            <<"MATCH", "WHERE", "WITH", "WHERE", "RETURN", "ORDER BY", "LIMIT">>
      [] op = "get_league_statistics" -> <<"MATCH", "WHERE", "RETURN">>
      [] op = "get_top_scoring_teams" ->
            <<"MATCH", "WHERE", "WITH", "UNWIND", "WITH", "RETURN", "ORDER BY", "LIMIT">>

\* the clauses of the Cypher text each operation sends to the store
CypherClauses(op) ==
    CASE op = "find_matches_between_teams" ->
            <<"MATCH", "WHERE", "RETURN", "ORDER BY", "LIMIT">>
      [] op = "find_matches_by_team" -> ByTeamClauses
      [] op = "get_team_statistics" -> ByTeamClauses \o ByTeamClauses \o ByTeamClauses
      [] op = "get_season_standings" -> StandingsClauses
      [] op = "get_competition_winners" ->
            <<"MATCH", "WHERE", "RETURN", "ORDER BY">> \o StandingsClauses
      [] op = "get_biggest_wins" ->
            <<"MATCH", "WHERE", "WITH", "WHERE", "RETURN", "ORDER BY", "LIMIT">>
      [] op = "get_league_statistics" -> <<"MATCH", "WHERE", "RETURN">>
      [] op = "get_top_scoring_teams" ->
            <<"MATCH", "WHERE", "WITH", "UNWIND", "WITH", "RETURN", "ORDER BY", "LIMIT">>

\* Neo4jConnection.execute: session.run(query) runs every clause; clauses
\* that only read leave the graph as it is, an updating clause may leave
\* any other graph
Execute(op) ==
    IF \E i \in 1..Len(CypherClauses(op)) : CypherClauses(op)[i] \in UpdatingClauses
    THEN store' \in {EmptyStore, [store EXCEPT !.edges = {}]}
    ELSE store' = store

QueryOps ==
    {"find_matches_between_teams", "find_matches_by_team", "get_team_statistics",
     "get_season_standings", "get_competition_winners", "get_biggest_wins",
     "get_league_statistics", "get_top_scoring_teams"}

\* the matches that can be written: a league match of 2020, the return
\* match of 2019 from the historical file, a second league match of 2020,
\* and a cup match without date and season
HistoricalFixture ==
    [datetime |-> Some(20191123), tag |-> SourceTag(HistoricalFile),
     competition |-> BRASILEIRAO.name, season |-> Some(2019)]

\* raw home name, raw away name, fixture, home goals, away goals
AMatches ==
    { <<"Flamengo-RJ", "Fluminense", LeagueFixture, 3, 0>>,
      <<"Flamengo-RJ", "Fluminense", LeagueFixture, 2, 1>>,
      <<"Flamengo-RJ", "Fluminense", LeagueFixture, 1, 1>>,
      <<"Fluminense", "Flamengo", HistoricalFixture, 0, 1>>,
      <<"Fluminense", "Flamengo", HistoricalFixture, 2, 1>>,
      <<"Fluminense", "Flamengo", LeagueFixture, 2, 1>>,
      <<"Fluminense", "Flamengo", LeagueFixture, 0, 3>>,
      <<"Flamengo", "Fluminense", CupFixture, 0, 1>> }

\* what the loader hands to _create_match_node for each of them
AWrites ==
    { MatchDict(generate_match_id(p[3].datetime, p[1], p[2], p[3].tag),
                p[3].datetime, p[1], p[2], p[4], p[5],
                p[3].competition, p[3].season, None, None)
      : p \in AMatches }

\* the optional season and competition filters the queries are called with
AFilters ==
    { [season |-> None, competition |-> None],
      [season |-> Some(2020), competition |-> Some("Brasileirao")] }

\* find_matches_by_team: team, filters, home_only, away_only, limit (100 is
\* the default)
AByTeamArgs ==
    { [team |-> "Flamengo-RJ", season |-> f.season, competition |-> f.competition,
       home_only |-> h, away_only |-> a, limit |-> 100]
      : f \in AFilters, h \in BOOLEAN, a \in BOOLEAN }
    \cup
    { [team |-> "Botafogo", season |-> None, competition |-> None,
       home_only |-> FALSE, away_only |-> FALSE, limit |-> 100] }
    \cup
    { [team |-> "Flamengo-RJ", season |-> None, competition |-> None,
       home_only |-> h, away_only |-> h, limit |-> 1]
      : h \in BOOLEAN }

AStatsTeams == {"Flamengo-RJ", "Fluminense", "Botafogo"}

\* get_competition_winners: competition, start_year, end_year
AWinnersArgs ==
    { [competition |-> c, start_year |-> r[1], end_year |-> r[2]]
      : c \in {"Brasileirao", "Copa do Brasil"},
        r \in { <<None, None>>, <<Some(2020), None>>, <<None, Some(2019)>>,
                <<Some(2019), Some(2020)>>, <<None, Some(0)>> } }

\* get_biggest_wins and get_top_scoring_teams: filters and limit (20 and 10
\* are the defaults)
ABiggestArgs ==
    { [season |-> f.season, competition |-> f.competition, limit |-> l]
      : f \in AFilters, l \in {1, 20} }

ATopArgs ==
    { [season |-> f.season, competition |-> f.competition, limit |-> l]
      : f \in AFilters, l \in {1, 10} }

AHeadToHeadArgs ==
    { [team1 |-> "Flamengo-RJ", team2 |-> "Fluminense", limit |-> 50],
      [team1 |-> "Botafogo", team2 |-> "Vasco", limit |-> 50] }

AStandingsArgs ==
    { [competition |-> "Brasileirao", season |-> 2020],
      [competition |-> "Brasileirao", season |-> 2018] }

ALeagueArgs ==
    { [competition |-> "Brasileirao", season |-> None],
      [competition |-> "Brasileirao", season |-> Some(2018)],
      [competition |-> "Libertadores", season |-> None] }

InitAnalytics ==
    /\ raw = "" /\ normOnce = "" /\ normTwice = "" /\ npc = "off"
    /\ store = EmptyStore
    /\ files = <<>>
    /\ teams_cache = <<>>
    /\ pc = "off"
    /\ stats = NoStats
    /\ runCounts = <<>>
    /\ qres = NoResult
    /\ conn = NoConn

\* a loader writes one Match: _create_match_node; qres keeps whether a
\* Match of that id with other goals was stored
IngestMatch ==
    \E d \in AWrites :
        /\ Len(MergeMatch(store.matches, d)) <= MaxMatches
        /\ store' = create_match_node(store, d)
        /\ qres' = [op |-> "create_match_node", args |-> <<>>,
                    result |-> \E i \in 1..Len(store.matches) :
                                  /\ store.matches[i].id = d.id
                                  /\ store.matches[i].home_goals # d.home_goals]
        /\ UNCHANGED <<normVars, loadVars, conn>>

\* a call of a QueryExecutor operation: the arguments, what it returned and
\* what running its Cypher did to the store
QueryCall(op, args, result) ==
    /\ qres' = [op |-> op, args |-> args, result |-> result]
    /\ Execute(op)
    /\ UNCHANGED <<normVars, loadVars, conn>>

AnalyticsHeadToHead ==
    \E a \in AHeadToHeadArgs :
        QueryCall("find_matches_between_teams", a,
                  find_matches_between_teams(store, a.team1, a.team2, a.limit))

AnalyticsMatchesByTeam ==
    \E a \in AByTeamArgs :
        QueryCall("find_matches_by_team", a,
                  find_matches_by_team(store, a.team, a.season, a.competition,
                                       a.home_only, a.away_only, a.limit))

AnalyticsTeamStatistics ==
    \E t \in AStatsTeams, f \in AFilters :
        QueryCall("get_team_statistics",
                  [team |-> t, season |-> f.season, competition |-> f.competition],
                  get_team_statistics(store, t, f.season, f.competition))

AnalyticsSeasonStandings ==
    \E a \in AStandingsArgs :
        QueryCall("get_season_standings", a,
                  get_season_standings(store, a.competition, a.season))

AnalyticsCompetitionWinners ==
    \E a \in AWinnersArgs :
        QueryCall("get_competition_winners", a,
                  get_competition_winners(store, a.competition, a.start_year,
                                          a.end_year))

AnalyticsBiggestWins ==
    \E a \in ABiggestArgs :
        QueryCall("get_biggest_wins", a,
                  get_biggest_wins(store, a.competition, a.season, a.limit))

AnalyticsLeagueStatistics ==
    \E a \in ALeagueArgs :
        QueryCall("get_league_statistics", a,
                  get_league_statistics(store, a.competition, a.season))

AnalyticsTopScoringTeams ==
    \E a \in ATopArgs :
        QueryCall("get_top_scoring_teams", a,
                  get_top_scoring_teams(store, a.competition, a.season, a.limit))

NextAnalytics ==
    \/ IngestMatch
    \/ AnalyticsHeadToHead
    \/ AnalyticsMatchesByTeam
    \/ AnalyticsTeamStatistics
    \/ AnalyticsSeasonStandings
    \/ AnalyticsCompetitionWinners
    \/ AnalyticsBiggestWins
    \/ AnalyticsLeagueStatistics
    \/ AnalyticsTopScoringTeams

SpecAnalytics == InitAnalytics /\ [][NextAnalytics]_vars

\* the stored matches a team played, those of a competition, and those the
\* optional filters let through
PlayedBy(team) ==
    { i \in 1..Len(store.matches) :
        store.matches[i].home_team = team \/ store.matches[i].away_team = team }

OfCompetition(competition) ==
    { i \in 1..Len(store.matches) : Contains(store.matches[i].competition, competition) }

Filtered(season, competition) ==
    { i \in 1..Len(store.matches) :
        /\ (season # None) => store.matches[i].season = season
        /\ (competition # None) => Contains(store.matches[i].competition, competition[1]) }

\* the last call was a query whose filters no stored match satisfies
NothingMatches ==
    LET a == qres.args IN
    CASE qres.op = "find_matches_between_teams" ->
            PlayedBy(normalize_team_name(a.team1)) \cap PlayedBy(normalize_team_name(a.team2)) = {}
      [] qres.op \in {"find_matches_by_team", "get_team_statistics"} ->
            PlayedBy(normalize_team_name(a.team)) \cap Filtered(a.season, a.competition) = {}
      [] qres.op = "get_season_standings" ->
            OfCompetition(a.competition) \cap Filtered(Some(a.season), None) = {}
      [] qres.op = "get_competition_winners" -> OfCompetition(a.competition) = {}
      [] qres.op = "get_league_statistics" ->
            OfCompetition(a.competition) \cap Filtered(a.season, None) = {}
      [] qres.op \in {"get_biggest_wins", "get_top_scoring_teams"} ->
            Filtered(a.season, a.competition) = {}
      [] OTHER -> FALSE

\* the result of the last call is a normal one that holds nothing
EmptyResult ==
    LET r == qres.result IN
    CASE qres.op = "find_matches_between_teams" ->
            /\ r.total_matches = 0 /\ r.matches = <<>>
            /\ r.team1_wins = 0 /\ r.team2_wins = 0 /\ r.draws = 0
      [] qres.op = "find_matches_by_team" ->
            /\ r.total_matches = 0 /\ r.matches = <<>>
            /\ r.wins = 0 /\ r.draws = 0 /\ r.losses = 0 /\ r.points = 0
      [] qres.op = "get_team_statistics" ->
            /\ r.overall.matches = 0 /\ r.home.matches = 0 /\ r.away.matches = 0
            /\ r.overall.win_rate = 0 /\ r.home.win_rate = 0 /\ r.away.win_rate = 0
      [] qres.op = "get_season_standings" -> r.total_teams = 0 /\ r.standings = <<>>
      [] qres.op = "get_competition_winners" -> r.total_seasons = 0 /\ r.winners = <<>>
      [] qres.op = "get_biggest_wins" -> r.total = 0 /\ r.matches = <<>>
      [] qres.op = "get_league_statistics" ->
            /\ r.raised = ""
            /\ r.total_matches = 0 /\ r.home_wins = 0 /\ r.away_wins = 0 /\ r.draws = 0
      [] qres.op = "get_top_scoring_teams" -> r.teams = <<>>

(***************************************************************************)
(* C11: every query operation returns a normal result with zero counts and *)
(* empty lists, and raises nothing, when no stored match satisfies its     *)
(* filters.                                                                *)
(***************************************************************************)
C11_EmptyResultsDoNotRaise == NothingMatches => EmptyResult

(***************************************************************************)
(* C13: find_matches_by_team with home_only set returns only matches whose *)
(* home_team is the normalized team; with away_only set and home_only not  *)
(* set it returns only matches whose away_team is the normalized team;     *)
(* with both set it returns what it returns with home_only alone.          *)
(***************************************************************************)
C13_HomeAwayOnly ==
    qres.op = "find_matches_by_team" =>
        LET a == qres.args
            ms == qres.result.matches
            team_norm == normalize_team_name(a.team)
        IN  /\ a.home_only =>
                   \A i \in 1..Len(ms) : ms[i].home_team = team_norm
            /\ (a.away_only /\ ~a.home_only) =>
                   \A i \in 1..Len(ms) : ms[i].away_team = team_norm
            /\ (a.home_only /\ a.away_only) =>
                   qres.result = find_matches_by_team(store, a.team, a.season,
                                     a.competition, TRUE, FALSE, a.limit)

\* the call with both flags set returned a match, from a store that also
\* holds a match the team played away
C13_Witness ==
    /\ qres.op = "find_matches_by_team"
    /\ qres.args.home_only /\ qres.args.away_only
    /\ qres.result.total_matches >= 1
    /\ \E i \in 1..Len(store.matches) :
           store.matches[i].away_team = normalize_team_name(qres.args.team)

\* win_rate, in tenths of a per cent, is what a group of that many wins
\* and matches asks for: 0 over no match, and otherwise within [0, 100] and
\* no further from wins / matches * 100 than half a tenth
RateOfGroup(g) ==
    /\ g.matches = 0 => g.win_rate = 0
    /\ g.matches > 0 =>
           /\ 0 <= g.win_rate /\ g.win_rate <= 1000
           /\ 2 * Abs(g.win_rate * g.matches - 1000 * g.wins) <= g.matches

(***************************************************************************)
(* C14: in the result of get_team_statistics each of the overall, home and *)
(* away win_rate is 0 when the group has no matches and otherwise          *)
(* wins / matches * 100 rounded to one decimal, always within [0, 100],    *)
(* also for a team with no stored match.                                   *)
(***************************************************************************)
C14_WinRates ==
    qres.op = "get_team_statistics" =>
        /\ RateOfGroup(qres.result.overall)
        /\ RateOfGroup(qres.result.home)
        /\ RateOfGroup(qres.result.away)

\* the team won two of its three matches, so that the rate is rounded up to
\* 66.7, and one of them at home
C14_Witness ==
    /\ qres.op = "get_team_statistics"
    /\ qres.result.overall.matches = 3
    /\ qres.result.overall.wins = 2
    /\ qres.result.overall.win_rate = 667
    /\ qres.result.home.matches = 1

\* the statistics of a team with no stored match, from a store that holds
\* matches of other teams
C14_WitnessNoMatches ==
    /\ qres.op = "get_team_statistics"
    /\ Len(store.matches) >= 1
    /\ qres.result.overall.matches = 0
    /\ qres.result.overall.win_rate = 0

\* the goals a score "<x>-<y>" of one-digit numbers stands for
ScoreGoals(score) ==
    CHOOSE g \in (0..9) \X (0..9) : score = IntToStr(g[1]) \o "-" \o IntToStr(g[2])

\* entry e of get_biggest_wins reports stored match m
ReportsMatch(e, m) ==
    /\ m.home_goals # m.away_goals
    /\ e.goal_difference = Abs(m.home_goals - m.away_goals)
    /\ e.score = IntToStr(Max(m.home_goals, m.away_goals)) \o "-"
                    \o IntToStr(Min(m.home_goals, m.away_goals))
    /\ m.home_goals > m.away_goals => e.winner = m.home_team /\ e.loser = m.away_team
    /\ m.away_goals > m.home_goals => e.winner = m.away_team /\ e.loser = m.home_team
    /\ e.datetime = m.datetime /\ e.competition = m.competition /\ e.season = m.season

(***************************************************************************)
(* C15: get_biggest_wins returns at most limit entries, none of a drawn    *)
(* match, ordered by goal difference descending and then by total goals    *)
(* descending; each entry is that of a stored match, with goal_difference  *)
(* |home_goals - away_goals|, score "<max>-<min>" and the side with more   *)
(* goals as winner; a 3-0 home win gives goal_difference 3, score "3-0"    *)
(* and the home team as winner.                                            *)
(***************************************************************************)
C15_BiggestWins ==
    qres.op = "get_biggest_wins" =>
        LET es == qres.result.matches IN
        /\ qres.result.total = Len(es)
        /\ Len(es) <= qres.args.limit
        /\ \A i \in 1..Len(es) :
               /\ es[i].goal_difference > 0
               /\ \E k \in 1..Len(store.matches) : ReportsMatch(es[i], store.matches[k])
               /\ \A k \in 1..Len(store.matches) :
                      (/\ store.matches[k].home_goals = 3
                       /\ store.matches[k].away_goals = 0
                       /\ es[i].datetime = store.matches[k].datetime
                       /\ es[i].winner = store.matches[k].home_team)
                      => es[i].goal_difference = 3 /\ es[i].score = "3-0"
        /\ \A i \in 1..(Len(es) - 1) :
               LET a == ScoreGoals(es[i].score)
                   b == ScoreGoals(es[i + 1].score)
               IN  \/ es[i].goal_difference > es[i + 1].goal_difference
                   \/ /\ es[i].goal_difference = es[i + 1].goal_difference
                      /\ a[1] + a[2] >= b[1] + b[2]

\* three wins were returned: the 3-0 home win first, then a 2-1 and a 1-0
\* of equal goal difference, of which the store holds the 1-0 first
C15_Witness ==
    /\ qres.op = "get_biggest_wins"
    /\ qres.result.total = 3
    /\ qres.result.matches[1].score = "3-0"
    /\ qres.result.matches[1].goal_difference = 3
    /\ \E k \in 1..Len(store.matches) :
           /\ store.matches[k].home_goals = 3
           /\ qres.result.matches[1].winner = store.matches[k].home_team
    /\ qres.result.matches[2].score = "2-1"
    /\ qres.result.matches[3].score = "1-0"
    /\ \E j, k \in 1..Len(store.matches) :
           /\ j < k
           /\ store.matches[j].home_goals + store.matches[j].away_goals = 1
           /\ store.matches[k].home_goals + store.matches[k].away_goals = 3

\* the seasons of the stored matches of a competition that lie within the
\* bounds that are given
SeasonsWithin(competition, start_year, end_year) ==
    { store.matches[i].season[1] :
        i \in { j \in 1..Len(store.matches) :
                  /\ Contains(store.matches[j].competition, competition)
                  /\ store.matches[j].season # None
                  /\ start_year # None => store.matches[j].season[1] >= start_year[1]
                  /\ end_year # None => store.matches[j].season[1] <= end_year[1] } }

\* the winners are one entry for each of the seasons, in ascending order,
\* each with the fields of the first row of that season's standings
WinnersOf(winners, competition, seasons) ==
    /\ { winners[i].season : i \in 1..Len(winners) } = seasons
    /\ \A i \in 1..(Len(winners) - 1) : winners[i].season < winners[i + 1].season
    /\ \A i \in 1..Len(winners) :
           LET table == get_season_standings(store, competition, winners[i].season).standings
           IN  /\ Len(table) >= 1
               /\ table[1].position = 1
               /\ winners[i].winner = table[1].team
               /\ winners[i].points = table[1].points
               /\ winners[i].wins = table[1].wins
               /\ winners[i].goals_for = table[1].goals_for

(***************************************************************************)
(* C16: get_competition_winners returns exactly one entry for each         *)
(* distinct non-null season that has a match of the competition and lies   *)
(* within [start_year, end_year] inclusive, a side that is not given being *)
(* unbounded, in ascending order of season; the winner, points, wins and   *)
(* goals_for of an entry are those of the position-1 row of                *)
(* get_season_standings for that season.                                   *)
(***************************************************************************)
C16_CompetitionWinners ==
    qres.op = "get_competition_winners" =>
        /\ qres.result.total_seasons = Len(qres.result.winners)
        /\ WinnersOf(qres.result.winners, qres.args.competition,
                     SeasonsWithin(qres.args.competition, qres.args.start_year,
                                   qres.args.end_year))

\* the same for the calls whose bounds are not 0: it holds for them
C16_CompetitionWinnersNonZeroBounds ==
    (/\ qres.op = "get_competition_winners"
     /\ qres.args.start_year # Some(0)
     /\ qres.args.end_year # Some(0)) =>
        /\ qres.result.total_seasons = Len(qres.result.winners)
        /\ WinnersOf(qres.result.winners, qres.args.competition,
                     SeasonsWithin(qres.args.competition, qres.args.start_year,
                                   qres.args.end_year))

(***************************************************************************)
(* C17: after any sequence of match upserts, also one that writes a stored *)
(* id again with other goals, every stored Match has total_goals equal to  *)
(* home_goals + away_goals, and result "home_win", "away_win" or "draw" as *)
(* home_goals is greater than, less than or equal to away_goals.           *)
(***************************************************************************)
C17_DerivedFieldsFollowGoals ==
    \A i \in 1..Len(store.matches) :
        LET m == store.matches[i] IN
        /\ m.total_goals = m.home_goals + m.away_goals
        /\ m.result = "home_win" <=> m.home_goals > m.away_goals
        /\ m.result = "away_win" <=> m.home_goals < m.away_goals
        /\ m.result = "draw" <=> m.home_goals = m.away_goals

\* the last write was to an id that was stored with other goals, and it
\* turned a match that was not a draw into a draw
C17_Witness ==
    /\ qres.op = "create_match_node"
    /\ qres.result
    /\ \E i \in 1..Len(store.matches) :
           /\ store.matches[i].result = "draw"
           /\ store.matches[i].total_goals = 2

APlayerIds == {IntCell(7), IntCell(8), StrCell("x7"), StrCell("x8"), NaN}

\* a fully filled row and a row with empty cells for each of them
APlayerRows ==
    { [ID |-> id, Name |-> StrCell("Gabriel Barbosa"),
       Age |-> IntCell(23), Nationality |-> StrCell("Brazil"),
       Overall |-> IntCell(83), Potential |-> IntCell(86),
       Club |-> StrCell("Flamengo-RJ"), Position |-> StrCell("ST")]
      : id \in APlayerIds }
    \cup
    { [ID |-> id, Name |-> StrCell("Gabigol"),
       Age |-> NaN, Nationality |-> NaN,
       Overall |-> NaN, Potential |-> StrCell("unrated"),
       Club |-> NaN, Position |-> NaN]
      : id \in APlayerIds }

\* the files: absent, or one to MaxRows rows
APlayerFiles ==
    {AbsentFile} \cup
    UNION { { [present |-> TRUE, rows |-> r] : r \in SeqsOfLen(APlayerRows, n) }
            : n \in 1..MaxRows }

\* the rows that carry an ID, each ID with the last row that showed it
RECURSIVE SeenAfter(_, _, _)
SeenAfter(seen, rows, i) ==
    IF i > Len(rows) THEN seen
    ELSE IF IsNa(rows[i].ID) THEN SeenAfter(seen, rows, i + 1)
    ELSE SeenAfter({ e \in seen : e.id # rows[i].ID }
                       \cup {[id |-> rows[i].ID, row |-> rows[i]]},
                   rows, i + 1)

InitPlayers ==
    /\ raw = "" /\ normOnce = "" /\ normTwice = "" /\ npc = "off"
    /\ store = EmptyStore
    /\ files = <<>>
    /\ teams_cache = <<>>
    /\ pc = "off"
    /\ stats = NoStats
    /\ runCounts = <<>>
    /\ qres = NoResult
    /\ conn = NoConn

\* DataLoader._load_fifa_players on one file
load_fifa_players ==
    \E file \in APlayerFiles :
        LET r == LoadPlayerFile(file, store) IN
        /\ store' = r.st
        /\ qres' = [op |-> "load_fifa_players", count |-> r.count,
                    seen |-> SeenAfter(IF qres.op = "none" THEN {} ELSE qres.seen,
                                       file.rows, 1)]
        /\ UNCHANGED <<normVars, loadVars, conn>>

NextPlayers == load_fifa_players

SpecPlayers == InitPlayers /\ [][NextPlayers]_vars

\* the store holds one Player for each of the IDs seen, with the fields of
\* the last row that showed the ID
OnePlayerPerId(seen) ==
    /\ Cardinality(store.players) = Cardinality(seen)
    /\ \A e \in seen :
           \E p \in store.players :
               /\ p = RowPlayer(e.row)
               /\ \A q \in store.players : q.id = p.id => q = p

(***************************************************************************)
(* C18: after any sequence of player ingestions the store holds exactly    *)
(* one Player node for each distinct id the sources have shown, rows       *)
(* without an id having created nothing, and the fields of each node are   *)
(* those of the last row ingested with that id, also when an id occurs     *)
(* twice in one batch or in different batches.                             *)
(***************************************************************************)
C18_OnePlayerPerSourceId ==
    qres.op = "load_fifa_players" => OnePlayerPerId(qres.seen)

\* the same for the runs in which every ID shown is a number: it holds
C18_OnePlayerPerNumericId ==
    (/\ qres.op = "load_fifa_players"
     /\ \A e \in qres.seen : e.id.kind = "int") => OnePlayerPerId(qres.seen)

\* the id 7 came twice in the last batch and had come in a batch before, a
\* row without an id came too, and the store holds the players 7 and 8
C18_WitnessNumericIds ==
    /\ qres.op = "load_fifa_players"
    /\ qres.count = 2
    /\ \A e \in qres.seen : e.id.kind = "int"
    /\ Cardinality(qres.seen) = 2
    /\ \E p \in store.players : p.id = 7 /\ p.name = "Gabigol"

(***************************************************************************)
(* SpecConn: calls on a Neo4jConnection whose graph store goes away and    *)
(* comes back between them.  conn.call is the last call, conn.down whether *)
(* the store could not be reached while it ran, conn.outcome whether it    *)
(* returned or raised to its caller, and conn.sent how many statements it  *)
(* sent to the driver.                                                     *)
(***************************************************************************)
\* the constraints and indexes of schema_queries, by name
schema_queries ==
    {"team_name", "player_id", "match_id", "competition_name", "season_year",
     "team_state", "player_nationality", "player_club", "player_overall",
     "match_datetime", "match_season", "match_competition"}

\* a plausible slip for the write path: the loader logs a failed write and
\* goes on
WriteOutcomeLogged(reachable) == "returned"

\* session.run and session.execute_write raise ServiceUnavailable when the
\* store cannot be reached; execute and execute_write have no handler
StatementOutcome(reachable) == IF reachable THEN "returned" ELSE "raised"

\* the matches the loader writes in this specification
CWrites ==
    { d \in AWrites : d.home_goals > d.away_goals }

CStandingsArgs == { [competition |-> "Brasileirao", season |-> 2020] }

InitConn ==
    /\ raw = "" /\ normOnce = "" /\ normTwice = "" /\ npc = "off"
    /\ store = EmptyStore
    /\ files = <<>>
    /\ teams_cache = <<>>
    /\ pc = "off"
    /\ stats = NoStats
    /\ runCounts = <<>>
    /\ qres = NoResult
    /\ conn = NoConn

\* the graph store stops answering, or answers again
StoreGoesAway ==
    /\ conn.reachable
    /\ conn' = [conn EXCEPT !.reachable = FALSE]
    /\ UNCHANGED <<normVars, loadVars, store, qres>>

StoreComesBack ==
    /\ ~conn.reachable
    /\ conn' = [conn EXCEPT !.reachable = TRUE]
    /\ UNCHANGED <<normVars, loadVars, store, qres>>

\* Neo4jConnection.setup_schema: every statement is sent once, inside
\* try/except Exception, and the call ends with "Schema setup complete"
setup_schema ==
    /\ conn' = [conn EXCEPT
                   !.schema = IF conn.reachable THEN @ \cup schema_queries ELSE @,
                   !.call = "setup_schema",
                   !.down = ~conn.reachable,
                   !.outcome = "returned",
                   !.sent = Cardinality(schema_queries)]
    /\ UNCHANGED <<normVars, loadVars, store, qres>>

\* DataLoader._create_match_node through Neo4jConnection.execute_write
execute_write ==
    \E d \in CWrites :
        /\ Len(MergeMatch(store.matches, d)) <= MaxMatches
        /\ store' = IF conn.reachable THEN create_match_node(store, d) ELSE store
        /\ conn' = [conn EXCEPT
                       !.call = "execute_write",
                       !.down = ~conn.reachable,
                       !.outcome = StatementOutcome(conn.reachable),
                       !.sent = 1]
        /\ UNCHANGED <<normVars, loadVars, qres>>

\* QueryExecutor.get_season_standings through Neo4jConnection.execute
execute ==
    \E a \in CStandingsArgs :
        /\ qres' = IF conn.reachable
                   THEN [op |-> "get_season_standings", args |-> a,
                         result |-> get_season_standings(store, a.competition, a.season)]
                   ELSE [op |-> "get_season_standings", args |-> a]
        /\ conn' = [conn EXCEPT
                       !.call = "execute",
                       !.down = ~conn.reachable,
                       !.outcome = StatementOutcome(conn.reachable),
                       !.sent = 1]
        /\ UNCHANGED <<normVars, loadVars, store>>

NextConn ==
    \/ StoreGoesAway
    \/ StoreComesBack
    \/ setup_schema
    \/ execute_write
    \/ execute

SpecConn == InitConn /\ [][NextConn]_vars

(***************************************************************************)
(* C20: when the graph store cannot be reached, the call in progress       *)
(* (schema setup, an ingestion write or a query) fails explicitly to its   *)
(* caller: it raises instead of returning as if it had succeeded, and      *)
(* nothing is sent again after the statement that failed.                  *)
(***************************************************************************)
C20_UnreachableStoreFailsCall ==
    (conn.call # "none" /\ conn.down) =>
        /\ conn.outcome = "raised"
        /\ conn.sent = 1

\* the same for the ingestion writes and the queries: it holds for them
C20_WritesAndQueriesFail ==
    (conn.call \in {"execute_write", "execute"} /\ conn.down) =>
        /\ conn.outcome = "raised"
        /\ conn.sent = 1

\* a write was tried while the store was away, after matches had been
\* written and the schema set up
C20_WitnessWriteFailed ==
    /\ conn.call = "execute_write"
    /\ conn.down
    /\ Len(store.matches) >= 1
    /\ conn.schema # {}

(***************************************************************************)
(* server.py: call_tool.  SpecTool: tools are called by name with a bag of *)
(* arguments, on a store that is written to and that goes away and comes   *)
(* back.  An exception is the name of its class; the text of a response is *)
(* the JSON object it holds: its keys and the value of "error".            *)
(***************************************************************************)
\* the names call_tool dispatches on
ToolNames ==
    {"find_matches", "get_head_to_head", "get_team_stats", "find_players",
     "get_top_players", "get_standings", "get_biggest_wins", "get_league_stats",
     "get_competition_winners", "list_teams"}

\* the keys call_tool reads with arguments[...] for each tool
RequiredArguments(name) ==
    CASE name \in {"find_matches", "get_team_stats"} -> {"team"}
      [] name = "get_head_to_head" -> {"team1", "team2"}
      [] name = "get_standings" -> {"competition", "season"}
      [] name \in {"get_league_stats", "get_competition_winners"} -> {"competition"}
      [] OTHER -> {}

\* arguments.get(key): None when the key is not in the bag
ArgGet(arguments, key) ==
    IF key \in DOMAIN arguments THEN Some(arguments[key]) ELSE None

\* arguments.get(key, default)
ArgGetOr(arguments, key, default) ==
    IF key \in DOMAIN arguments THEN arguments[key] ELSE default

\* the keys of the dictionary the executor returns to call_tool
ResultKeys(name, arguments, st) ==
    CASE name = "find_matches" ->
            DOMAIN find_matches_by_team(st, arguments.team, ArgGet(arguments, "season"),
                       ArgGet(arguments, "competition"),
                       ArgGetOr(arguments, "home_only", FALSE),
                       ArgGetOr(arguments, "away_only", FALSE),
                       ArgGetOr(arguments, "limit", 50))
      [] name = "get_head_to_head" ->
            DOMAIN find_matches_between_teams(st, arguments.team1, arguments.team2,
                       ArgGetOr(arguments, "limit", 50))
      [] name = "get_team_stats" ->
            DOMAIN get_team_statistics(st, arguments.team, ArgGet(arguments, "season"),
                       ArgGet(arguments, "competition"))
      [] name = "find_players" -> {"total_found", "filters", "players"}
      [] name = "get_top_players" -> {"filters", "total", "players"}
      [] name = "get_standings" ->
            DOMAIN get_season_standings(st, arguments.competition, arguments.season)
      [] name = "get_biggest_wins" ->
            DOMAIN get_biggest_wins(st, ArgGet(arguments, "competition"),
                       ArgGet(arguments, "season"), ArgGetOr(arguments, "limit", 20))
      [] name = "get_league_stats" ->
            DOMAIN get_league_statistics(st, arguments.competition,
                       ArgGet(arguments, "season")) \ {"raised"}
      [] name = "get_competition_winners" ->
            DOMAIN get_competition_winners(st, arguments.competition,
                       ArgGet(arguments, "start_year"), ArgGet(arguments, "end_year"))
      [] name = "list_teams" -> {"teams"}

\* the exception the body of the try raises, "" when it raises none: a
\* KeyError of arguments[...], the failure of the store, or what the
\* executor raises itself
Raised(name, arguments, st, reachable) ==
    IF name \notin ToolNames THEN ""
    ELSE IF ~(RequiredArguments(name) \subseteq DOMAIN arguments) THEN "KeyError"
    ELSE IF ~reachable THEN "ServiceUnavailable"
    ELSE IF name = "get_league_stats"
         THEN get_league_statistics(st, arguments.competition,
                                    ArgGet(arguments, "season")).raised
         ELSE ""

\* a plausible slip: only the missing argument is handled
CaughtKeyErrorOnly(exc) == exc = "KeyError"

\* `except Exception as e`
Caught(exc) == TRUE

\* json.dumps({"error": str(e)}) and format_result({"error": ...})
ErrorText(message) == [keys |-> {"error"}, error |-> message]

\* what call_tool gives its caller: the list of TextContent it returns, and
\* the exception that leaves it ("" when none does)
ToolResponse(name, arguments, st, reachable) ==
    LET exc == Raised(name, arguments, st, reachable) IN
    IF exc # ""
    THEN IF Caught(exc)
         THEN [propagated |-> "",
               content |-> <<[type |-> "text", text |-> ErrorText(exc)]>>]
         ELSE [propagated |-> exc, content |-> <<>>]
    ELSE IF name \notin ToolNames
         THEN [propagated |-> "",
               content |-> <<[type |-> "text",
                              text |-> ErrorText("Unknown tool: " \o name)]>>]
         ELSE [propagated |-> "",
               content |-> <<[type |-> "text",
                              text |-> [keys |-> ResultKeys(name, arguments, st),
                                        error |-> ""]]>>]

\* the argument bags: empty, and the arguments of a call about Flamengo and
\* the Brasileirao of 2020
ToolArguments ==
    { <<>>,
      [team |-> "Flamengo", team1 |-> "Flamengo", team2 |-> "Fluminense",
       competition |-> "Brasileirao", season |-> 2020],
      [team |-> "Flamengo", team1 |-> "Flamengo",
       competition |-> "Libertadores"] }

ToolCalls ==
    { <<n, a>> : n \in ToolNames \cup {"get_weather"}, a \in ToolArguments }

InitTool ==
    /\ raw = "" /\ normOnce = "" /\ normTwice = "" /\ npc = "off"
    /\ store = EmptyStore
    /\ files = <<>>
    /\ teams_cache = <<>>
    /\ pc = "off"
    /\ stats = NoStats
    /\ runCounts = <<>>
    /\ qres = NoResult
    /\ conn = NoConn

\* server.call_tool
call_tool ==
    \E c \in ToolCalls :
        LET r == ToolResponse(c[1], c[2], store, conn.reachable) IN
        /\ qres' = [op |-> "call_tool", name |-> c[1],
                    given |-> DOMAIN c[2],
                    raised |-> Raised(c[1], c[2], store, conn.reachable),
                    propagated |-> r.propagated, content |-> r.content]
        /\ UNCHANGED <<normVars, loadVars, store, conn>>

NextTool ==
    \/ StoreGoesAway
    \/ StoreComesBack
    \/ execute_write
    \/ call_tool

SpecTool == InitTool /\ [][NextTool]_vars

(***************************************************************************)
(* C21: call_tool never propagates an exception: for every tool name and   *)
(* argument bag (unknown tool, missing required argument, failing store or *)
(* query) it returns exactly one text response, and that is a JSON object  *)
(* with an "error" message whenever the tool is unknown or the underlying  *)
(* call raised.                                                            *)
(***************************************************************************)
C21_CallToolNeverPropagates ==
    qres.op = "call_tool" =>
        /\ qres.propagated = ""
        /\ Len(qres.content) = 1
        /\ qres.content[1].type = "text"
        /\ (qres.name \notin ToolNames \/ qres.raised # "") =>
               /\ "error" \in qres.content[1].text.keys
               /\ qres.content[1].text.error # ""

\* get_league_stats was called for a competition without a stored match, on
\* a store that holds matches and can be reached, and what the query raised
\* came back as an error response
C21_Witness ==
    /\ qres.op = "call_tool"
    /\ qres.name = "get_league_stats"
    /\ conn.reachable
    /\ Len(store.matches) >= 1
    /\ qres.raised = "TypeError"
    /\ qres.content[1].text.error = "TypeError"

(***************************************************************************)
(* C22: a Season node is created the first time a Match declaring that     *)
(* season is written: when load_all on an initially empty store has        *)
(* returned, a Season node exists for every non-null season carried by a   *)
(* stored Match, and that Match has an IN_SEASON edge to it.               *)
(***************************************************************************)
C22_SeasonNodesAfterFirstLoad ==
    (pc = "done" /\ Len(runCounts) = 1) =>
        \A i \in 1..Len(store.matches) :
            store.matches[i].season # None =>
                /\ store.matches[i].season[1] \in store.seasons
                /\ <<"IN_SEASON", store.matches[i].id,
                     IntToStr(store.matches[i].season[1])>> \in store.edges

\* a team field that is missing: no such column, an empty cell or NaN
MissingField(row, col) ==
    \/ row[col].kind = "absent"
    \/ IsNa(row[col])
    \/ row[col] = StrCell("")

NamesBothTeams(row) == ~MissingField(row, "home") /\ ~MissingField(row, "away")

(***************************************************************************)
(* C23: in every match source, a row whose home team or away team field is *)
(* missing (absent column, empty or NaN cell) is skipped silently: the     *)
(* step of a present source leaves the store, the team cache and the match *)
(* count as the file without those rows would.                             *)
(***************************************************************************)
C23_RowsMissingATeamAreSkipped ==
    [][\A s \in MatchSteps :
          (pc = s.here /\ files[s.src].present) =>
              LET named == [files[s.src] EXCEPT
                               !.rows = SelectSeq(@, NamesBothTeams)]
                  r == LoadMatchFile(s.src, named, teams_cache, store)
              IN  /\ store' = r.st
                  /\ teams_cache' = r.cache
                  /\ stats'.matches = stats.matches + r.count
      ]_vars

\* the (rawName, state) pairs a match loader passes to _get_or_create_team,
\* in the order of its calls
RECURSIVE ObservationsOf(_, _, _)
ObservationsOf(src, rows, i) ==
    IF i > Len(rows) THEN <<>>
    ELSE (IF HasBothTeams(rows[i])
          THEN << <<PyStr(RowGet(rows[i], "home", StrCell(""))),
                    SourceState(src, rows[i], "home_state")>>,
                  <<PyStr(RowGet(rows[i], "away", StrCell(""))),
                    SourceState(src, rows[i], "away_state")>> >>
          ELSE <<>>) \o ObservationsOf(src, rows, i + 1)

\* the match sources the running load_all has read
SourcesRead ==
    CASE pc = "copa" -> 1
      [] pc = "libertadores" -> 2
      [] pc = "historical" -> 3
      [] pc = "extended" -> 4
      [] pc \in {"teams", "players", "done"} -> 5
      [] OTHER -> 0

RECURSIVE ObservedUpTo(_)
ObservedUpTo(src) ==
    IF src = 0 THEN <<>>
    ELSE ObservedUpTo(src - 1) \o ObservationsOf(src, files[src].rows, 1)

\* a state as an option: NaN and None are no state
StateOf(cell) == IF IsNa(cell) THEN None ELSE Some(PyStr(cell))

\* the first state among the observations of a canonical name
FirstState(obs, key) ==
    LET withState == { i \in 1..Len(obs) :
                          /\ normalize_team_name(obs[i][1]) = key
                          /\ ~IsNa(obs[i][2]) }
    IN  IF withState = {} THEN None
        ELSE StateOf(obs[CHOOSE i \in withState :
                             \A j \in withState : i <= j][2])

NamesObserved(obs, key) ==
    { obs[i][1] : i \in { j \in 1..Len(obs) :
                             normalize_team_name(obs[j][1]) = key } }

(***************************************************************************)
(* C24: after any sequence of (rawName, state) observations passed to      *)
(* _get_or_create_team, the state of each canonical team is the first      *)
(* non-null state observed for that canonical name, also when the first    *)
(* observation of the name carried no state and a later one did, and       *)
(* original_names is the set of all raw names observed for it.             *)
(***************************************************************************)
C24_FirstStateAndAllNames ==
    pc # "idle" =>
        LET obs == ObservedUpTo(SourcesRead) IN
        \A k \in 1..Len(teams_cache) :
            /\ StateOf(teams_cache[k].team.state) = FirstState(obs, teams_cache[k].key)
            /\ teams_cache[k].team.original_names
                   = NamesObserved(obs, teams_cache[k].key)

\* the teams of the cache are the canonical names observed, and each has
\* all the raw names observed for it
C24_AllNamesObserved ==
    pc # "idle" =>
        LET obs == ObservedUpTo(SourcesRead) IN
        /\ { teams_cache[k].key : k \in 1..Len(teams_cache) }
               = { normalize_team_name(obs[i][1]) : i \in 1..Len(obs) }
        /\ \A k \in 1..Len(teams_cache) :
               teams_cache[k].team.original_names
                   = NamesObserved(obs, teams_cache[k].key)

(***************************************************************************)
(* SpecLoadFail: one load_all on a store that starts empty, in which a     *)
(* write of a match loader may fail.  execute_write has no handler and     *)
(* neither have the loaders nor load_all: what the write raises leaves     *)
(* load_all.  Each write is a transaction of its own, so a failed write    *)
(* changes nothing and the writes before it stay.                          *)
(***************************************************************************)
\* the loop of a match loader when the store takes `budget` more writes and
\* fails the one after; acc is [cache, st, count, raised]
RECURSIVE LoadRowsWithBudget(_, _, _, _, _)
LoadRowsWithBudget(src, rows, i, acc, budget) ==
    IF i > Len(rows) THEN acc
    ELSE IF ~HasBothTeams(rows[i])
         THEN LoadRowsWithBudget(src, rows, i + 1, acc, budget)
    ELSE LET r == LoadRow(src, rows[i], [cache |-> acc.cache, st |-> acc.st,
                                          count |-> acc.count])
         IN  IF budget = 0
             THEN [cache |-> r.cache, st |-> acc.st, count |-> acc.count,
                   raised |-> TRUE]
             ELSE LoadRowsWithBudget(src, rows, i + 1,
                      [cache |-> r.cache, st |-> r.st, count |-> r.count,
                       raised |-> FALSE], budget - 1)

\* a plausible slip: the loader logs the failed write and load_all goes on
\* with the next source
AfterFailedWriteNextSource(next) == next

\* where load_all is after a write of a loader raised: the exception has
\* left it
AfterFailedWrite(next) == "failed"

\* server.initialize_database: the one load_all
FirstLoadAll == pc = "idle" /\ StartLoadAll

\* a step of load_all in which a write of the match loader fails
FailingLoadStep ==
    \E s \in MatchSteps :
        /\ pc = s.here
        /\ files[s.src].present
        /\ \E budget \in 0..MaxRows :
               LET r == LoadRowsWithBudget(s.src, files[s.src].rows, 1,
                            [cache |-> teams_cache, st |-> store,
                             count |-> 0, raised |-> FALSE], budget)
               IN  /\ r.raised
                   /\ teams_cache' = r.cache
                   /\ store' = r.st
                   /\ qres' = [op |-> "load_all", raised |-> TRUE,
                               src |-> s.src, written |-> budget]
        /\ pc' = AfterFailedWrite(s.next)
        /\ UNCHANGED <<normVars, files, stats, runCounts, conn>>

NextLoadFail ==
    \/ FirstLoadAll
    \/ load_brasileirao_matches
    \/ load_copa_brasil_matches
    \/ load_libertadores_matches
    \/ load_historical_brasileirao
    \/ load_extended_statistics
    \/ CreateTeams
    \/ LoadPlayersAndReturn
    \/ FailingLoadStep

SpecLoadFail == InitLoad /\ [][NextLoadFail]_vars

\* the rows among the first n that name both teams
FirstNamed(rows, n) ==
    { j \in 1..Len(rows) :
          /\ HasBothTeams(rows[j])
          /\ Len(SelectSeq(SubSeq(rows, 1, j), HasBothTeams)) <= n }

(***************************************************************************)
(* C25: if a store write fails while load_all is processing a source, the  *)
(* failure propagates and nothing is rolled back: every Competition and    *)
(* Match node written by the steps before remains in the store unchanged,  *)
(* as do the Match nodes the failing step wrote before the failure, and    *)
(* after the failure no Team or Player is written and load_all returns no  *)
(* counts.                                                                 *)
(***************************************************************************)
C25_FailedWritePropagatesNoRollback ==
    [][/\ (qres.op # "load_all" /\ qres'.op = "load_all") =>
              /\ store'.comps = store.comps
              /\ Len(store'.matches) >= Len(store.matches)
              /\ \A i \in 1..Len(store.matches) :
                     store'.matches[i] = store.matches[i]
              /\ MatchIds(store') = MatchIds(store) \cup
                     { RowMatch(qres'.src, files[qres'.src].rows[j]).id :
                           j \in FirstNamed(files[qres'.src].rows, qres'.written) }
              /\ store'.teams = store.teams
              /\ store'.players = store.players
              /\ runCounts' = runCounts
       /\ qres.op = "load_all" =>
              /\ store'.teams = store.teams
              /\ store'.players = store.players
              /\ store'.matches = store.matches
              /\ runCounts' = runCounts
      ]_vars

\* the first write of a later source failed: the Match of an earlier source
\* is stored, the teams of the cache are not
C25_Witness ==
    /\ qres.op = "load_all"
    /\ qres.src >= 2
    /\ qres.written = 0
    /\ Len(store.matches) >= 1
    /\ Len(teams_cache) >= 1
    /\ store.teams = {}
    /\ runCounts = <<>>

\* a cell that holds a number: an integer, or a text of digits
HoldsNumber(cell) ==
    \/ cell.kind = "int"
    \/ cell.kind = "str" /\ Strip(cell.s) # "" /\ AllDigits(Strip(cell.s))

\* the stored Match nodes and the rows of the player file that are loaded
StoredMatches == { store.matches[i] : i \in 1..Len(store.matches) }

LoadedPlayerRows ==
    { files[FifaFile].rows[i] :
        i \in { j \in 1..Len(files[FifaFile].rows) :
                  ~IsNa(RowGet(files[FifaFile].rows[j], "ID", NoneCell)) } }

(***************************************************************************)
(* C26: numeric coercion during ingestion: a missing or unparsable goal    *)
(* count is stored as 0, and a missing or unparsable optional player       *)
(* rating or age (Overall, Potential, Age) is stored as null, never as 0.  *)
(***************************************************************************)
C26_NumericCoercion ==
    pc = "done" =>
        /\ \A src \in 1..5 : \A i \in 1..Len(files[src].rows) :
               LET row == files[src].rows[i]
                   d == RowMatch(src, row)
               IN  (HasBothTeams(row) /\ d \in StoredMatches) =>
                       /\ ~HoldsNumber(row.home_goal) => d.home_goals = 0
                       /\ ~HoldsNumber(row.away_goal) => d.away_goals = 0
        /\ \A row \in LoadedPlayerRows :
               LET p == RowPlayer(row) IN
               p \in store.players =>
                   /\ ~HoldsNumber(row.Overall) => p.overall = None
                   /\ ~HoldsNumber(row.Potential) => p.potential = None
                   /\ ~HoldsNumber(row.Age) => p.age = None

\* the part about goal counts, and about the ratings and ages that are
\* missing
C26_GoalsZeroMissingRatingsNull ==
    pc = "done" =>
        /\ \A src \in 1..5 : \A i \in 1..Len(files[src].rows) :
               LET row == files[src].rows[i]
                   d == RowMatch(src, row)
               IN  (HasBothTeams(row) /\ d \in StoredMatches) =>
                       /\ ~HoldsNumber(row.home_goal) => d.home_goals = 0
                       /\ ~HoldsNumber(row.away_goal) => d.away_goals = 0
        /\ \A row \in LoadedPlayerRows :
               LET p == RowPlayer(row) IN
               p \in store.players =>
                   /\ IsNa(row.Overall) => p.overall = None
                   /\ IsNa(row.Potential) => p.potential = None
                   /\ IsNa(row.Age) => p.age = None

(***************************************************************************)
(* C27: after load_all completes, for every stored Match there is a stored *)
(* Team node whose name equals the Match's home_team and one whose name    *)
(* equals its away_team, for every raw team name appearing in the sources. *)
(***************************************************************************)
C27_MatchTeamsHaveNodes ==
    pc = "done" =>
        \A m \in StoredMatches :
            /\ \E t \in store.teams : t.name = m.home_team
            /\ \E t \in store.teams : t.name = m.away_team

(***************************************************************************)
(* C28: on an initially empty store, the counts returned by load_all equal *)
(* what the store holds afterwards: "teams" equals the number of Team      *)
(* nodes and "matches" the number of Match nodes, for every input, raw     *)
(* names that map to one canonical team and rows that produce the same     *)
(* match id included.                                                      *)
(***************************************************************************)
C28_CountsEqualStore ==
    (pc = "done" /\ Len(runCounts) = 1) =>
        /\ stats.teams = Cardinality(store.teams)
        /\ stats.matches = Len(store.matches)

\* the count of teams alone, over the inputs in which no row names a team
\* that normalising twice changes
C28_TeamCountOfStableNames ==
    (pc = "done" /\ Len(runCounts) = 1
        /\ \A k \in 1..Len(teams_cache) :
               normalize_team_name(teams_cache[k].key) = teams_cache[k].key) =>
        stats.teams = Cardinality(store.teams)

\* the count of matches alone
C28_MatchCount ==
    (pc = "done" /\ Len(runCounts) = 1) => stats.matches = Len(store.matches)

(***************************************************************************)
(* SpecTable: rows of Brasileirao_Matches.csv are ingested into a store    *)
(* that starts empty, as the loader does for each row, and the statistics  *)
(* of a team and the table of the season are computed from what is stored. *)
(* The clubs are Flamengo and the two Atleticos of the league, which the   *)
(* file names with their state suffix.                                     *)
(***************************************************************************)
\* home, away, date, home goals, away goals
TFixtures ==
    { <<"Atletico-MG", "Atletico-GO", "2020-05-20", 2, 1>>,
      <<"Atletico-MG", "Atletico-GO", "2020-05-20", 0, 0>>,
      <<"Atletico-GO", "Atletico-MG", "2019-11-23", 1, 3>>,
      <<"Flamengo-RJ", "Atletico-MG", "2020-05-20", 2, 1>>,
      <<"Flamengo-RJ", "Atletico-MG", "2019-11-23", 1, 1>>,
      <<"Atletico-GO", "Flamengo-RJ", "2020-05-20", 0, 3>>,
      <<"Atletico-GO", "Flamengo-RJ", "2019-11-23", 2, 2>> }

TRows ==
    { [date |-> StrCell(f[3]), home |-> StrCell(f[1]), away |-> StrCell(f[2]),
       home_goal |-> IntCell(f[4]), away_goal |-> IntCell(f[5]),
       season |-> IntCell(2020), home_state |-> NoColumn,
       away_state |-> NoColumn, round |-> NaN, stadium |-> NoColumn,
       tournament |-> NoColumn] : f \in TFixtures }

\* what _load_brasileirao_matches hands to _create_match_node for each row
TWrites == { RowMatch(BrasileiraoFile, row) : row \in TRows }

TStatsTeams == {"Atletico-MG", "Flamengo", "Palmeiras"}

TFilters ==
    { [season |-> None, competition |-> None],
      [season |-> Some(2020), competition |-> Some("Brasileirao")] }

InitTable ==
    /\ raw = "" /\ normOnce = "" /\ normTwice = "" /\ npc = "off"
    /\ store = EmptyStore
    /\ files = <<>>
    /\ teams_cache = <<>>
    /\ pc = "off"
    /\ stats = NoStats
    /\ runCounts = <<>>
    /\ qres = NoResult
    /\ conn = NoConn

\* the write of one row of the file
TableIngest ==
    \E d \in TWrites :
        /\ Len(MergeMatch(store.matches, d)) <= MaxMatches
        /\ store' = create_match_node(store, d)
        /\ qres' = [op |-> "create_match_node", args |-> <<>>, result |-> FALSE]
        /\ UNCHANGED <<normVars, loadVars, conn>>

TableTeamStatistics ==
    \E t \in TStatsTeams, f \in TFilters :
        QueryCall("get_team_statistics",
                  [team |-> t, season |-> f.season, competition |-> f.competition],
                  get_team_statistics(store, t, f.season, f.competition))

TableSeasonStandings ==
    \E c \in {"Brasileirao", "Copa"} :
        QueryCall("get_season_standings", [competition |-> c, season |-> 2020],
                  get_season_standings(store, c, 2020))

NextTable ==
    \/ TableIngest
    \/ TableTeamStatistics
    \/ TableSeasonStandings

SpecTable == InitTable /\ [][NextTable]_vars

\* the record of a group is the sum of the records of two others
SumOfGroups(g, a, b) ==
    /\ g.matches = a.matches + b.matches
    /\ g.wins = a.wins + b.wins
    /\ g.draws = a.draws + b.draws
    /\ g.losses = a.losses + b.losses
    /\ g.goals_for = a.goals_for + b.goals_for
    /\ g.goals_against = a.goals_against + b.goals_against

(***************************************************************************)
(* C29: in get_team_statistics the overall record is the sum of the home   *)
(* and away records: matches, wins, draws, losses, goals_for and           *)
(* goals_against of "overall" are those of "home" plus those of "away",    *)
(* for every team and every number of stored matches.                      *)
(***************************************************************************)
C29_OverallIsHomePlusAway ==
    qres.op = "get_team_statistics" =>
        SumOfGroups(qres.result.overall, qres.result.home, qres.result.away)

\* the same over the stores in which no Match has one name on both sides
C29_OverallIsHomePlusAwayOfTwoTeams ==
    (/\ qres.op = "get_team_statistics"
     /\ \A m \in StoredMatches : m.home_team # m.away_team) =>
        SumOfGroups(qres.result.overall, qres.result.home, qres.result.away)

\* the sum of a column of the table
RECURSIVE SumColumn(_, _, _)
SumColumn(rows, field, i) ==
    IF i > Len(rows) THEN 0
    ELSE rows[i][field] + SumColumn(rows, field, i + 1)

(***************************************************************************)
(* C30: get_season_standings credits each matching match exactly once to   *)
(* both participants: over the whole table the sum of matches is twice the *)
(* number of matching matches, the sum of wins equals the sum of losses,   *)
(* the sum of draws is even, and the sum of goals_for equals the sum of    *)
(* goals_against.                                                          *)
(***************************************************************************)
C30_StandingsCreditBothSides ==
    qres.op = "get_season_standings" =>
        LET rows == qres.result.standings
            matching == SeasonQuery(store, qres.args.competition, qres.args.season)
        IN  /\ SumColumn(rows, "matches", 1) = 2 * Len(matching)
            /\ SumColumn(rows, "wins", 1) = SumColumn(rows, "losses", 1)
            /\ SumColumn(rows, "draws", 1) % 2 = 0
            /\ SumColumn(rows, "goals_for", 1) = SumColumn(rows, "goals_against", 1)

\* the table of a season of three matches, one of them drawn and two
\* decided, and one of them stored with one name on both sides
C30_Witness ==
    /\ qres.op = "get_season_standings"
    /\ Len(qres.result.standings) = 2
    /\ \E m \in StoredMatches : m.home_team = m.away_team
    /\ SumColumn(qres.result.standings, "matches", 1) = 6
    /\ SumColumn(qres.result.standings, "draws", 1) = 2
    /\ SumColumn(qres.result.standings, "wins", 1) = 2

====
